---- MODULE Spec2Model ----
(***************************************************************************)
(* Agent-Assist generation pipeline and PHI redaction gate.                *)
(*                                                                         *)
(*   src/src/utils/phi_redaction.py      PHIRedactor (redact)              *)
(*   src/src/llm_services/gemini_service.py  GeminiService                 *)
(*   src/src/agent_assist/service.py     AgentAssistService                *)
(*                                                                         *)
(* Python values are records tagged with their type.  A str is the tuple   *)
(* of its characters (one-character strings), so that the regular          *)
(* expressions of PHIRedactor.PATTERNS and str.lower() are computed on     *)
(* characters, the way the interpreter computes them.                      *)
(***************************************************************************)
EXTENDS Integers, Sequences, FiniteSets, TLC

(***************************************************************************)
(* Python values                                                           *)
(***************************************************************************)
None == [type |-> "NoneType"]

PyStr(chars) == [type |-> "str", chars |-> chars]

PyInt(n) == [type |-> "int", value |-> n]

PyBool(b) == [type |-> "bool", value |-> b]

IsStr(v) == v.type = "str"

\* bool(v): None, "" and 0 are falsy
Truthy(v) ==
  CASE v.type = "str" -> Len(v.chars) > 0
    [] v.type = "int" -> v.value # 0
    [] v.type = "dict" -> DOMAIN v.items # {}
    [] v.type = "list" -> Len(v.items) > 0
    [] OTHER -> FALSE

(***************************************************************************)
(* Characters                                                              *)
(***************************************************************************)
LowerLetters ==
  <<"a", "b", "c", "d", "e", "f", "g", "h", "i", "j", "k", "l", "m",
    "n", "o", "p", "q", "r", "s", "t", "u", "v", "w", "x", "y", "z">>

UpperLetters ==
  <<"A", "B", "C", "D", "E", "F", "G", "H", "I", "J", "K", "L", "M",
    "N", "O", "P", "Q", "R", "S", "T", "U", "V", "W", "X", "Y", "Z">>

Range(f) == {f[i] : i \in DOMAIN f}

LowerSet == Range(LowerLetters)

UpperSet == Range(UpperLetters)

Letters == LowerSet \cup UpperSet

Digits == {"0", "1", "2", "3", "4", "5", "6", "7", "8", "9"}

\* \s of the re module, restricted to ASCII
Whitespace == {" ", "\t", "\n", "\r", "\f"}

\* \w of the re module, restricted to ASCII
WordChars == Letters \cup Digits \cup {"_"}

\* str.lower() on one character
LowerChar(c) ==
  IF c \in UpperSet
    THEN LowerLetters[CHOOSE i \in DOMAIN UpperLetters : UpperLetters[i] = c]
    ELSE c

\* str.upper() on one character
UpperChar(c) ==
  IF c \in LowerSet
    THEN UpperLetters[CHOOSE i \in DOMAIN LowerLetters : LowerLetters[i] = c]
    ELSE c

lower(chars) == [i \in DOMAIN chars |-> LowerChar(chars[i])]

upper(chars) == [i \in DOMAIN chars |-> UpperChar(chars[i])]

(***************************************************************************)
(* Regular expressions, as the re module matches them.  A pattern is a     *)
(* tuple of alternatives tried in order; an alternative is a tuple of      *)
(* items: the assertion \b, or a character class with a repetition         *)
(* {min,max}, greedy or lazy (max = -1: unbounded).  Matching backtracks   *)
(* in the module's priority order: a greedy item takes the largest count   *)
(* for which the rest of the alternative matches, a lazy item the          *)
(* smallest.                                                               *)
(***************************************************************************)
WordBoundary == [kind |-> "b", cls |-> {}, min |-> 0, max |-> 0, lazy |-> FALSE]

Rep(cls, min, max) ==
  [kind |-> "c", cls |-> cls, min |-> min, max |-> max, lazy |-> FALSE]

LazyRep(cls, min, max) ==
  [kind |-> "c", cls |-> cls, min |-> min, max |-> max, lazy |-> TRUE]

Lit(c) == Rep({c}, 1, 1)

\* re.IGNORECASE: a character matches a class when either of its cases is in it
InClass(c, cls) == LowerChar(c) \in cls \/ UpperChar(c) \in cls

\* \b at offset pos (pos characters lie before it)
AtBoundary(s, pos) ==
  LET before == pos >= 1 /\ s[pos] \in WordChars
      after == pos < Len(s) /\ s[pos + 1] \in WordChars
  IN before # after

SetMax(S) == CHOOSE x \in S : \A y \in S : y <= x

SetMin(S) == CHOOSE x \in S : \A y \in S : x <= y

\* the number of characters from offset pos on that lie in cls, at most limit
RunLength(s, pos, cls, limit) ==
  LET most == IF Len(s) - pos < limit THEN Len(s) - pos ELSE limit
  IN SetMax({n \in 0 .. most : \A j \in 1 .. n : InClass(s[pos + j], cls)})

\* the offset at which items[k..] match from offset pos, or -1
RECURSIVE MatchItems(_, _, _, _)
MatchItems(items, k, s, pos) ==
  IF k > Len(items) THEN pos
  ELSE LET it == items[k] IN
    IF it.kind = "b"
      THEN IF AtBoundary(s, pos) THEN MatchItems(items, k + 1, s, pos) ELSE -1
      ELSE LET limit == IF it.max = -1 THEN Len(s) ELSE it.max
               run == RunLength(s, pos, it.cls, limit)
               ok == {n \in it.min .. run : MatchItems(items, k + 1, s, pos + n) # -1}
           IN IF ok = {} THEN -1
              ELSE MatchItems(items, k + 1, s,
                              pos + (IF it.lazy THEN SetMin(ok) ELSE SetMax(ok)))

\* the end offset of the match of pattern alts at offset pos, or -1
RECURSIVE MatchAlts(_, _, _, _)
MatchAlts(alts, a, s, pos) ==
  IF a > Len(alts) THEN -1
  ELSE LET e == MatchItems(alts[a], 1, s, pos)
       IN IF e # -1 THEN e ELSE MatchAlts(alts, a + 1, s, pos)

\* re.sub with count=1: only the leftmost match is replaced
SubFirst(alts, repl, s, pos) ==
  LET starts == {i \in pos .. Len(s) - 1 : MatchAlts(alts, 1, s, i) > i} IN
  IF starts = {} THEN [chars |-> SubSeq(s, pos + 1, Len(s)), count |-> 0]
  ELSE LET i == SetMin(starts)
           e == MatchAlts(alts, 1, s, i)
       IN [chars |-> SubSeq(s, pos + 1, i) \o repl \o SubSeq(s, e + 1, Len(s)),
           count |-> Cardinality(starts)]

\* re.sub(pattern, repl, s) together with len(re.findall(pattern, s)): the
\* leftmost non-overlapping matches, scanning from offset pos
RECURSIVE SubFrom(_, _, _, _)
SubFrom(alts, repl, s, pos) ==
  LET starts == {i \in pos .. Len(s) - 1 : MatchAlts(alts, 1, s, i) > i} IN
  IF starts = {} THEN [chars |-> SubSeq(s, pos + 1, Len(s)), count |-> 0]
  ELSE LET i == SetMin(starts)
           rest == SubFrom(alts, repl, s, MatchAlts(alts, 1, s, i))
       IN [chars |-> SubSeq(s, pos + 1, i) \o repl \o rest.chars,
           count |-> rest.count + 1]

(***************************************************************************)
(* PHIRedactor                                                             *)
(***************************************************************************)
Sep == {"-", "."} \cup Whitespace

IdSep == {":", "#"} \cup Whitespace

LitSeq(chars) == [i \in DOMAIN chars |-> Lit(chars[i])]

\* PHIRedactor.PATTERNS, in the order of the dict
PATTERNS == <<
  [name |-> <<"s", "s", "n">>,
   alts |-> <<
     <<WordBoundary, Rep(Digits, 3, 3), Lit("-"), Rep(Digits, 2, 2), Lit("-"),
       Rep(Digits, 4, 4), WordBoundary>>,
     <<WordBoundary, Rep(Digits, 9, 9), WordBoundary>> >>],
  [name |-> <<"p", "h", "o", "n", "e">>,
   alts |-> <<
     <<WordBoundary, Rep(Digits, 3, 3), LazyRep(Sep, 0, 1), Rep(Digits, 3, 3),
       LazyRep(Sep, 0, 1), Rep(Digits, 4, 4), WordBoundary>>,
     <<Lit("("), Rep(Digits, 3, 3), Lit(")"), Rep(Whitespace, 0, -1),
       Rep(Digits, 3, 3), LazyRep(Sep, 0, 1), Rep(Digits, 4, 4), WordBoundary>> >>],
  [name |-> <<"e", "m", "a", "i", "l">>,
   alts |-> <<
     <<WordBoundary,
       Rep(Letters \cup Digits \cup {".", "_", "%", "+", "-"}, 1, -1),
       Lit("@"),
       Rep(Letters \cup Digits \cup {".", "-"}, 1, -1),
       Lit("."),
       Rep(Letters \cup {"|"}, 2, -1),
       WordBoundary>> >>],
  [name |-> <<"m", "r", "n">>,
   alts |-> <<
     <<WordBoundary>> \o LitSeq(<<"M", "R", "N">>)
       \o <<Rep(IdSep, 0, 1), Rep(Digits, 6, 10), WordBoundary>> >>],
  [name |-> <<"p", "a", "t", "i", "e", "n", "t", "_", "i", "d">>,
   alts |-> <<
     <<WordBoundary, Rep({"P", "p"}, 1, 1)>>
       \o LitSeq(<<"a", "t", "i", "e", "n", "t">>)
       \o <<Rep(IdSep, 0, 1)>> \o LitSeq(<<"I", "D">>)
       \o <<Rep(IdSep, 0, 1), Rep(Digits, 6, 10), WordBoundary>> >>],
  [name |-> <<"p", "o", "l", "i", "c", "y">>,
   alts |-> <<
     <<WordBoundary, Rep({"P", "p"}, 1, 1)>>
       \o LitSeq(<<"o", "l", "i", "c", "y">>)
       \o <<Rep(IdSep, 0, 1), Rep(Digits, 8, 12), WordBoundary>> >>],
  [name |-> <<"c", "r", "e", "d", "i", "t", "_", "c", "a", "r", "d">>,
   alts |-> <<
     <<WordBoundary, Rep(Digits, 4, 4), Rep({"-"} \cup Whitespace, 0, 1),
       Rep(Digits, 4, 4), Rep({"-"} \cup Whitespace, 0, 1),
       Rep(Digits, 4, 4), Rep({"-"} \cup Whitespace, 0, 1),
       Rep(Digits, 4, 4), WordBoundary>> >>],
  [name |-> <<"d", "a", "t", "e">>,
   alts |-> <<
     <<WordBoundary, Rep(Digits, 1, 2), Rep({"-", "/"}, 1, 1), Rep(Digits, 1, 2),
       Rep({"-", "/"}, 1, 1), Rep(Digits, 2, 4), WordBoundary>> >> ] >>

PatternNames == [i \in DOMAIN PATTERNS |-> PATTERNS[i].name]

\* a placeholder that masks with digits; C26 tells it from the code
ReplacementMasked(name) ==
  <<"0", "0", "0", "-", "0", "0", "0", "-", "0", "0", "0", "0">>

\* f"[REDACTED_{pattern_name.upper()}]"
Replacement(name) ==
  <<"[", "R", "E", "D", "A", "C", "T", "E", "D", "_">> \o upper(name) \o <<"]">>

\* self.PATTERNS[pattern_name]
PatternOf(name) ==
  PATTERNS[CHOOSE i \in DOMAIN PATTERNS : PATTERNS[i].name = name].alts

\* the loop of redact over patterns_to_use[k..]
RECURSIVE RedactFrom(_, _, _, _)
RedactFrom(names, k, chars, counts) ==
  IF k > Len(names) THEN [text |-> PyStr(chars), counts |-> counts]
  ELSE IF names[k] \notin Range(PatternNames)
    THEN RedactFrom(names, k + 1, chars, counts)
    ELSE LET r == SubFrom(PatternOf(names[k]), Replacement(names[k]), chars, 0)
         IN IF r.count > 0
              THEN RedactFrom(names, k + 1, r.chars,
                              [n \in DOMAIN counts \cup {names[k]} |->
                                 IF n = names[k] THEN r.count ELSE counts[n]])
              ELSE RedactFrom(names, k + 1, chars, counts)

NoCounts == [n \in {} |-> 0]

\* a redact that reads a null text as the empty text; C21 tells it from the
\* code
redact_or_empty(text, patterns) ==
  IF text = None \/ text = PyStr(<<>>)
    THEN [text |-> PyStr(<<>>), counts |-> NoCounts]
    ELSE RedactFrom(IF patterns = None \/ patterns.items = <<>>
                      THEN PatternNames ELSE patterns.items,
                    1, text.chars, NoCounts)

\* PHIRedactor.redact(text, patterns); patterns = None: every pattern.
\* Returns the tuple (redacted_text, redaction_counts).
redact(text, patterns) ==
  IF text = None \/ text = PyStr(<<>>)
    THEN [text |-> text, counts |-> NoCounts]
    ELSE RedactFrom(IF patterns = None \/ patterns.items = <<>>
                      THEN PatternNames ELSE patterns.items,
                    1, text.chars, NoCounts)

\* PHIRedactor.is_text_safe
is_text_safe(text) == DOMAIN redact(text, None).counts = {}

(***************************************************************************)
(* Values of the pipeline                                                  *)
(***************************************************************************)
PyList(items) == [type |-> "list", items |-> items]

PyDict(items) == [type |-> "dict", items |-> items]

EmptyDict == PyDict([k \in {} |-> None])

\* PHIRedactor.redact_dict(data, keys_to_redact): a str value is redacted, a
\* dict value goes through redact_dict with the same keys_to_redact, of a
\* list value the str items are redacted; any other value stays
RECURSIVE redact_dict(_, _)
redact_dict(data, keys_to_redact) ==
  IF ~Truthy(data) THEN data
  ELSE PyDict([key \in DOMAIN data.items |->
    LET value == data.items[key] IN
    IF Truthy(keys_to_redact) /\ key \notin Range(keys_to_redact.items)
      THEN value
      ELSE CASE value.type = "str" -> redact(value, None).text
             [] value.type = "dict" -> redact_dict(value, keys_to_redact)
             [] value.type = "list" ->
                  PyList([i \in DOMAIN value.items |->
                            IF value.items[i].type = "str"
                              THEN redact(value.items[i], None).text
                              ELSE value.items[i]])
             [] OTHER -> value])

\* rationals in lowest terms stand for the floats of the confidence scores
RECURSIVE GCD(_, _)
GCD(a, b) == IF b = 0 THEN a ELSE GCD(b, a % b)

Rat(n, d) == LET g == GCD(n, d) IN [num |-> n \div g, den |-> d \div g]

RatAdd(a, b) == Rat(a.num * b.den + b.num * a.den, a.den * b.den)

RatDiv(a, k) == Rat(a.num, a.den * k)

RECURSIVE RatSum(_)
RatSum(scores) ==
  IF scores = <<>> THEN Rat(0, 1) ELSE RatAdd(Head(scores), RatSum(Tail(scores)))

\* str(v) as an f-string interpolates it: None is written "None"
Format(v) == IF v = None THEN <<"N", "o", "n", "e">> ELSE v.chars

\* x in s, for two str
Contains(s, x) ==
  \E i \in 0 .. Len(s) - Len(x) : SubSeq(s, i + 1, i + Len(x)) = x

\* utcnow().isoformat(): the clock is not modelled
Now == PyStr(<<"n", "o", "w">>)

\* what the remote model answers when it answers
GeneratedText == PyStr(<<"o", "k">>)

(***************************************************************************)
(* Requests                                                                *)
(***************************************************************************)
\* the conversation ids, roles and texts the requests carry
ConvIds == {"c1"}

Hi == PyStr(<<"h", "i">>)

Ssn == PyStr(<<"1", "2", "3", "-", "4", "5", "-", "6", "7", "8", "9">>)

\* the (role, text) pairs of the messages: the add-message route passes the
\* role and text of the request body as they are (a null text included), the
\* webhook maps the sender to "agent" or "patient"
MessageInputs ==
  {<<"patient", Hi>>, <<"patient", Ssn>>, <<"patient", PyStr(<<>>)>>,
   <<"agent", Hi>>, <<"agent", None>>}

(***************************************************************************)
(* GeminiService                                                           *)
(***************************************************************************)
\* num_replies, the default of generate_smart_replies
NumReplies == 3

\* context_messages[-5:]
ContextWindow == 5

\* self.phi_redactor.redact with the default patterns, on each text the
\* requests carry
phi_redactor == [text \in {m[2] : m \in MessageInputs} |-> redact(text, None)]

\* GeminiService._redact_phi_from_conversation: a new list of new dicts
_redact_phi_from_conversation(messages) ==
  [i \in DOMAIN messages |->
     [role |-> messages[i].role, text |-> phi_redactor[messages[i].text].text]]

\* the lines "ROLE: text" joined into the prompt
ConversationText(messages) ==
  [i \in DOMAIN messages |->
     [role |-> messages[i].role, text |-> Format(messages[i].text)]]

\* s[-n:]
LastN(s, n) == IF Len(s) <= n THEN s ELSE SubSeq(s, Len(s) - n + 1, Len(s))

\* the prompt summarize_conversation hands to model.generate_content
SummaryPrompt(messages) ==
  [conversation |-> ConversationText(_redact_phi_from_conversation(messages))]

\* the prompt generate_smart_replies hands to model.generate_content
SmartReplyPrompt(context_messages, last_message) ==
  [context |-> ConversationText(
                 LastN(_redact_phi_from_conversation(context_messages), ContextWindow)),
   last_message |-> Format(phi_redactor[last_message].text)]

\* the prompt generate_knowledge_snippet hands to model.generate_content
KnowledgePrompt(query) == [query |-> Format(query)]

\* [0.85, 0.80, 0.75]
ConfidenceScores == <<Rat(85, 100), Rat(80, 100), Rat(75, 100)>>

\* result["replies"] of generate_smart_replies for the replies parsed from the
\* model's answer
SmartReplies(replies) ==
  LET kept == SubSeq(replies, 1, IF Len(replies) < NumReplies THEN Len(replies) ELSE NumReplies)
  IN PyList([i \in DOMAIN kept |->
       [text |-> kept[i],
        confidence |-> IF i <= Len(ConfidenceScores) THEN ConfidenceScores[i] ELSE Rat(7, 10)]])

\* [result] of _generate_knowledge_async
KnowledgeSnippets(snippet) ==
  PyList(<<[snippet |-> snippet, relevance_score |-> Rat(85, 100)]>>)

(***************************************************************************)
(* AgentAssistService: the pure parts                                      *)
(***************************************************************************)
\* AgentAssistService.get_conversation_history on the dict store; limit is
\* None or an int, and `if limit` takes 0 for no limit
get_conversation_history(store, conversation_id, limit) ==
  LET messages == IF conversation_id \in DOMAIN store THEN store[conversation_id] ELSE <<>>
  IN IF Truthy(limit) THEN LastN(messages, limit.value) ELSE messages

\* a scan from the oldest message instead of reversed(messages); C8 tells it
\* from the code
_get_first_patient_message(messages) ==
  LET found == {i \in DOMAIN messages : messages[i].role = "patient"}
  IN IF found = {} THEN None ELSE messages[SetMin(found)].text

\* AgentAssistService._get_last_patient_message
_get_last_patient_message(messages) ==
  LET found == {i \in DOMAIN messages : messages[i].role = "patient"}
  IN IF found = {} THEN None ELSE messages[SetMax(found)].text

\* "Greet patient and ask how you can help"
ActGreet ==
  PyStr(<<"G", "r", "e", "e", "t", " ", "p", "a", "t", "i", "e", "n", "t", " ",
          "a", "n", "d", " ", "a", "s", "k", " ", "h", "o", "w", " ", "y", "o",
          "u", " ", "c", "a", "n", " ", "h", "e", "l", "p">>)

\* "Offer available appointment slots"
ActAppointment ==
  PyStr(<<"O", "f", "f", "e", "r", " ", "a", "v", "a", "i", "l", "a", "b", "l",
          "e", " ", "a", "p", "p", "o", "i", "n", "t", "m", "e", "n", "t", " ",
          "s", "l", "o", "t", "s">>)

\* "Look up patient billing information"
ActBilling ==
  PyStr(<<"L", "o", "o", "k", " ", "u", "p", " ", "p", "a", "t", "i", "e", "n",
          "t", " ", "b", "i", "l", "l", "i", "n", "g", " ", "i", "n", "f", "o",
          "r", "m", "a", "t", "i", "o", "n">>)

\* "Check prescription status and process refill"
ActPrescription ==
  PyStr(<<"C", "h", "e", "c", "k", " ", "p", "r", "e", "s", "c", "r", "i", "p",
          "t", "i", "o", "n", " ", "s", "t", "a", "t", "u", "s", " ", "a", "n",
          "d", " ", "p", "r", "o", "c", "e", "s", "s", " ", "r", "e", "f", "i",
          "l", "l">>)

\* "Verify results are available and offer to send securely"
ActResults ==
  PyStr(<<"V", "e", "r", "i", "f", "y", " ", "r", "e", "s", "u", "l", "t", "s",
          " ", "a", "r", "e", " ", "a", "v", "a", "i", "l", "a", "b", "l", "e",
          " ", "a", "n", "d", " ", "o", "f", "f", "e", "r", " ", "t", "o", " ",
          "s", "e", "n", "d", " ", "s", "e", "c", "u", "r", "e", "l", "y">>)

\* "Prepare for escalation to specialized team"
ActEscalate ==
  PyStr(<<"P", "r", "e", "p", "a", "r", "e", " ", "f", "o", "r", " ", "e", "s",
          "c", "a", "l", "a", "t", "i", "o", "n", " ", "t", "o", " ", "s", "p",
          "e", "c", "i", "a", "l", "i", "z", "e", "d", " ", "t", "e", "a", "m">>)

\* "Clarify patient's primary concern"
ActClarify ==
  PyStr(<<"C", "l", "a", "r", "i", "f", "y", " ", "p", "a", "t", "i", "e", "n",
          "t", "'", "s", " ", "p", "r", "i", "m", "a", "r", "y", " ", "c", "o",
          "n", "c", "e", "r", "n">>)

\* the keyword rules of _determine_next_best_action, in the order of the
\* if/elif chain
ActionRules == <<
  [words |-> <<<<"a", "p", "p", "o", "i", "n", "t", "m", "e", "n", "t">>,
               <<"s", "c", "h", "e", "d", "u", "l", "e">>,
               <<"b", "o", "o", "k">>>>,
   action |-> ActAppointment],
  [words |-> <<<<"b", "i", "l", "l">>,
               <<"c", "h", "a", "r", "g", "e">>,
               <<"c", "o", "s", "t">>,
               <<"i", "n", "s", "u", "r", "a", "n", "c", "e">>>>,
   action |-> ActBilling],
  [words |-> <<<<"p", "r", "e", "s", "c", "r", "i", "p", "t", "i", "o", "n">>,
               <<"m", "e", "d", "i", "c", "a", "t", "i", "o", "n">>,
               <<"r", "e", "f", "i", "l", "l">>>>,
   action |-> ActPrescription],
  [words |-> <<<<"r", "e", "s", "u", "l", "t", "s">>,
               <<"t", "e", "s", "t">>,
               <<"l", "a", "b">>>>,
   action |-> ActResults],
  [words |-> <<<<"s", "p", "e", "a", "k">>,
               <<"t", "a", "l", "k">>,
               <<"r", "e", "p", "r", "e", "s", "e", "n", "t", "a", "t", "i", "v", "e">>,
               <<"p", "e", "r", "s", "o", "n">>>>,
   action |-> ActEscalate] >>

\* the rules tried from the last to the first: the last matching rule wins;
\* C12 tells it from the code
RECURSIVE LastRule(_, _)
LastRule(k, last_message) ==
  IF k > Len(ActionRules) THEN ActClarify
  ELSE LET later == LastRule(k + 1, last_message) IN
    IF later # ActClarify THEN later
    ELSE IF \E w \in Range(ActionRules[k].words) : Contains(last_message, w)
      THEN ActionRules[k].action
      ELSE ActClarify

RECURSIVE FirstRule(_, _)
FirstRule(k, last_message) ==
  IF k > Len(ActionRules) THEN ActClarify
  ELSE IF \E w \in Range(ActionRules[k].words) : Contains(last_message, w)
    THEN ActionRules[k].action
    ELSE FirstRule(k + 1, last_message)

\* AgentAssistService._determine_next_best_action; messages[-1]["text"].lower()
\* raises AttributeError when the text is None
_determine_next_best_action(messages) ==
  IF messages = <<>> THEN [raised |-> FALSE, value |-> ActGreet]
  ELSE LET text == messages[Len(messages)].text IN
    IF ~IsStr(text) THEN [raised |-> TRUE, value |-> None]
    ELSE [raised |-> FALSE, value |-> FirstRule(1, lower(text.chars))]

\* a confidence that falls back on the dataclass default 0.0 when no score
\* was collected; C11 tells it from the code
_calculate_overall_confidence_or_zero(results) ==
  LET get(name) == IF name \in DOMAIN results THEN results[name] ELSE None
      replies == get("smart_replies")
      knowledge == get("knowledge")
      summary == get("summary")
      s1 == IF replies # None /\ replies.items # <<>>
              THEN <<RatDiv(RatSum([i \in DOMAIN replies.items |->
                                      replies.items[i].confidence]),
                            Len(replies.items))>>
              ELSE <<>>
      s2 == IF knowledge # None /\ knowledge.items # <<>> THEN <<Rat(85, 100)>> ELSE <<>>
      s3 == IF Truthy(summary) THEN <<Rat(90, 100)>> ELSE <<>>
      scores == s1 \o s2 \o s3
  IN IF scores # <<>> THEN RatDiv(RatSum(scores), Len(scores)) ELSE Rat(0, 1)

\* AgentAssistService._calculate_overall_confidence; results maps the names of
\* the awaited tasks to their results (None for a task that raised)
_calculate_overall_confidence(results) ==
  LET get(name) == IF name \in DOMAIN results THEN results[name] ELSE None
      replies == get("smart_replies")
      knowledge == get("knowledge")
      summary == get("summary")
      s1 == IF replies # None /\ replies.items # <<>>
              THEN <<RatDiv(RatSum([i \in DOMAIN replies.items |->
                                      replies.items[i].confidence]),
                            Len(replies.items))>>
              ELSE <<>>
      s2 == IF knowledge # None /\ knowledge.items # <<>> THEN <<Rat(85, 100)>> ELSE <<>>
      s3 == IF Truthy(summary) THEN <<Rat(90, 100)>> ELSE <<>>
      scores == s1 \o s2 \o s3
  IN IF scores # <<>> THEN RatDiv(RatSum(scores), Len(scores)) ELSE Rat(1, 2)

\* the dataclass AgentAssistResponse, with its defaults
AgentAssistResponse(conversation_id, timestamp) ==
  [conversation_id |-> conversation_id,
   timestamp |-> timestamp,
   summary |-> None,
   smart_replies |-> None,
   knowledge_snippets |-> None,
   next_best_action |-> None,
   confidence_score |-> Rat(0, 1)]

(***************************************************************************)
(* State                                                                   *)
(***************************************************************************)
VARIABLES
  active_conversations,  \* AgentAssistService.active_conversations: id -> list
  a_pc,                  \* where the generate_real_time_assist call stands
  a_call,                \* its arguments
  a_messages,            \* its local `messages`: a reference to a list
  a_task,                \* the asyncio tasks it created, by name
  a_response,            \* what it returned
  n_added,               \* the number of add_message calls so far
  threads,               \* the request threads of the server: where each stands
  appended,              \* the messages of the add_message calls that returned
  other_calls,           \* a register_conversation or close_conversation call was made
  fn_call,               \* a call made on its own: the method and its arguments
  fn_result,             \* what that call returned
  webhook_secret         \* GenesysWebhookHandler.webhook_secret

vars ==
  <<active_conversations, a_pc, a_call, a_messages, a_task, a_response, n_added,
    threads, appended, other_calls, fn_call, fn_result, webhook_secret>>

fn_vars == <<fn_call, fn_result>>

handler_vars == <<webhook_secret>>

assist_vars == <<a_pc, a_call, a_messages, a_task, a_response>>

thread_vars == <<threads, appended, other_calls>>

\* the number of add_message calls in a run
MaxMessages == 3

\* len(messages) >= 3, the threshold of the summary
SummaryMinMessages == 3

\* len(messages) >= 2, the threshold of the smart replies
SmartRepliesMinMessages == 2

\* the order in which generate_real_time_assist creates its tasks
TaskNames == <<"summary", "smart_replies", "knowledge">>

NoTask ==
  [state |-> "none", args |-> None, read |-> None, sent |-> None, result |-> None]

NoCall ==
  [conversation_id |-> "", include_summary |-> FALSE,
   include_smart_replies |-> FALSE, include_knowledge |-> FALSE]

\* no call made yet
NoFn == [name |-> ""]

\* the call has not returned yet
NoResult == [type |-> "no result"]

\* the call returned value
Returned(value) == [raised |-> FALSE, value |-> value]

\* the request threads of the threaded server
Threads == {"t1", "t2"}

\* a thread between two requests
Idle == [pc |-> "idle", caller |-> "", conversation_id |-> "", message |-> None]

\* `messages` refers to the list stored under the id (live), or to a list the
\* store no longer holds, whose content is items
NoMessages == [live |-> FALSE, items |-> <<>>]

\* the content of the list `messages` refers to
Messages ==
  IF a_messages.live THEN active_conversations[a_call.conversation_id]
  ELSE a_messages.items

\* the service after construction, and no request in progress
InitService ==
  /\ active_conversations = [c \in {} |-> <<>>]
  /\ a_pc = "idle"
  /\ a_call = NoCall
  /\ a_messages = NoMessages
  /\ a_task = [n \in Range(TaskNames) |-> NoTask]
  /\ a_response = None
  /\ n_added = 0
  /\ threads = [t \in Threads |-> Idle]
  /\ appended = <<>>
  /\ other_calls = FALSE

\* config.genesys.webhook_secret is None unless GENESYS_WEBHOOK_SECRET is set
Init ==
  /\ InitService
  /\ fn_call = NoFn
  /\ fn_result = NoResult
  /\ webhook_secret = None

(***************************************************************************)
(* Conversation Store: each handler runs as a whole.                       *)
(***************************************************************************)
\* a registration that assigns a new list whatever the dict holds; C14 tells
\* it from the code
RegisteredAnew(store, conversation_id) ==
  [c \in DOMAIN store \cup {conversation_id} |->
     IF c = conversation_id THEN <<>> ELSE store[c]]

\* the dict after register_conversation(conversation_id)
Registered(store, conversation_id) ==
  IF conversation_id \notin DOMAIN store
    THEN [c \in DOMAIN store \cup {conversation_id} |->
            IF c = conversation_id THEN <<>> ELSE store[c]]
    ELSE store

\* an add that puts the message at the head of the list; C27 tells it from
\* the code
AddedAtHead(store, conversation_id, role, text, timestamp) ==
  LET message == [role |-> role, text |-> text,
                  timestamp |-> IF timestamp # None THEN timestamp ELSE Now]
  IN [Registered(store, conversation_id) EXCEPT
        ![conversation_id] = <<message>> \o @]

\* the dict after add_message(conversation_id, role, text, timestamp)
Added(store, conversation_id, role, text, timestamp) ==
  LET message == [role |-> role, text |-> text,
                  timestamp |-> IF timestamp # None THEN timestamp ELSE Now]
  IN [Registered(store, conversation_id) EXCEPT
        ![conversation_id] = Append(@, message)]

\* a close that clears the list and keeps the key; C15 tells it from the code
ClosedKeepingKey(store, conversation_id) ==
  [c \in DOMAIN store |-> IF c = conversation_id THEN <<>> ELSE store[c]]

\* the dict after close_conversation(conversation_id)
Closed(store, conversation_id) ==
  IF conversation_id \in DOMAIN store
    THEN [c \in DOMAIN store \ {conversation_id} |-> store[c]]
    ELSE store

\* A call that has returned or raised is over: its response is held until
\* the next step of any request.
CallOver == a_pc \in {"returned", "raised"}

\* what a step of another request leaves of the call; messages is what the
\* call's `messages` refers to after the step
OtherRequest(messages) ==
  IF CallOver
    THEN /\ a_pc' = "idle"
         /\ a_call' = NoCall
         /\ a_messages' = NoMessages
         /\ a_task' = [n \in Range(TaskNames) |-> NoTask]
         /\ a_response' = None
    ELSE /\ a_messages' = messages
         /\ UNCHANGED <<a_pc, a_call, a_task, a_response>>

register_conversation(conversation_id) ==
  /\ active_conversations' = Registered(active_conversations, conversation_id)
  /\ OtherRequest(a_messages)
  /\ UNCHANGED n_added
  /\ UNCHANGED thread_vars
  /\ UNCHANGED fn_vars
  /\ UNCHANGED handler_vars

add_message(conversation_id, role, text, timestamp) ==
  /\ n_added < MaxMessages
  /\ n_added' = n_added + 1
  /\ active_conversations' =
       Added(active_conversations, conversation_id, role, text, timestamp)
  /\ OtherRequest(a_messages)
  /\ UNCHANGED thread_vars
  /\ UNCHANGED fn_vars
  /\ UNCHANGED handler_vars

\* del removes the key; the list lives on in a call that refers to it
close_conversation(conversation_id) ==
  /\ active_conversations' = Closed(active_conversations, conversation_id)
  /\ OtherRequest(IF a_messages.live /\ a_call.conversation_id = conversation_id
                    THEN [live |-> FALSE,
                          items |-> active_conversations[conversation_id]]
                    ELSE a_messages)
  /\ UNCHANGED n_added
  /\ UNCHANGED thread_vars
  /\ UNCHANGED fn_vars
  /\ UNCHANGED handler_vars

(***************************************************************************)
(* generate_real_time_assist.  The call runs in the thread of its request, *)
(* so that the handlers of other requests run between its steps.  Inside   *)
(* the call the event loop runs one task at a time: _generate_*_async hold *)
(* no await and the GeminiService methods are synchronous, so a task that  *)
(* starts runs until it returns or raises, and model.generate_content      *)
(* blocks the loop while the remote model answers.                         *)
(***************************************************************************)
\* a fetch that registers the id it is asked about, as
\* active_conversations.setdefault(conversation_id, []) would; C10 tells it
\* from the code
AssistFetchSetdefault(conversation_id, include_summary, include_smart_replies, include_knowledge) ==
  /\ a_pc \in {"idle", "returned", "raised"}
  /\ a_call' = [conversation_id |-> conversation_id,
                include_summary |-> include_summary,
                include_smart_replies |-> include_smart_replies,
                include_knowledge |-> include_knowledge]
  /\ a_task' = [n \in Range(TaskNames) |-> NoTask]
  /\ active_conversations' = Registered(active_conversations, conversation_id)
  /\ IF get_conversation_history(active_conversations, conversation_id, None) = <<>>
       THEN /\ a_pc' = "returned"
            /\ a_messages' = NoMessages
            /\ a_response' = AgentAssistResponse(conversation_id, Now)
       ELSE /\ a_pc' = "summary"
            /\ a_messages' = [live |-> TRUE, items |-> <<>>]
            /\ a_response' = None
  /\ UNCHANGED n_added
  /\ UNCHANGED thread_vars
  /\ UNCHANGED fn_vars
  /\ UNCHANGED handler_vars

\* lines 116-123: fetch the history; an empty one returns the default response
AssistFetch(conversation_id, include_summary, include_smart_replies, include_knowledge) ==
  /\ a_pc \in {"idle", "returned", "raised"}
  /\ a_call' = [conversation_id |-> conversation_id,
                include_summary |-> include_summary,
                include_smart_replies |-> include_smart_replies,
                include_knowledge |-> include_knowledge]
  /\ a_task' = [n \in Range(TaskNames) |-> NoTask]
  /\ IF get_conversation_history(active_conversations, conversation_id, None) = <<>>
       THEN /\ a_pc' = "returned"
            /\ a_messages' = NoMessages
            /\ a_response' = AgentAssistResponse(conversation_id, Now)
       ELSE /\ a_pc' = "summary"
            /\ a_messages' = [live |-> TRUE, items |-> <<>>]
            /\ a_response' = None
  /\ UNCHANGED <<active_conversations, n_added>>
  /\ UNCHANGED thread_vars
  /\ UNCHANGED fn_vars
  /\ UNCHANGED handler_vars

\* a summary gate with the threshold of the smart replies; C7 tells it from
\* the code
SummaryGateAtTwo ==
  /\ a_pc = "summary"
  /\ a_pc' = "smart_replies"
  /\ a_task' =
       IF a_call.include_summary /\ Len(Messages) >= SmartRepliesMinMessages
         THEN [a_task EXCEPT !["summary"].state = "pending"]
         ELSE a_task
  /\ UNCHANGED <<active_conversations, a_call, a_messages, a_response, n_added>>
  /\ UNCHANGED thread_vars
  /\ UNCHANGED fn_vars
  /\ UNCHANGED handler_vars

\* lines 128-134
SummaryGate ==
  /\ a_pc = "summary"
  /\ a_pc' = "smart_replies"
  /\ a_task' =
       IF a_call.include_summary /\ Len(Messages) >= SummaryMinMessages
         THEN [a_task EXCEPT !["summary"].state = "pending"]
         ELSE a_task
  /\ UNCHANGED <<active_conversations, a_call, a_messages, a_response, n_added>>
  /\ UNCHANGED thread_vars
  /\ UNCHANGED fn_vars
  /\ UNCHANGED handler_vars

\* lines 136-147: messages[:-1] is a copy, last_patient_message a value
SmartRepliesGate ==
  /\ a_pc = "smart_replies"
  /\ a_pc' = "knowledge"
  /\ LET last_patient_message == _get_last_patient_message(Messages) IN
     a_task' =
       IF /\ a_call.include_smart_replies
          /\ Len(Messages) >= SmartRepliesMinMessages
          /\ Truthy(last_patient_message)
         THEN [a_task EXCEPT !["smart_replies"] =
                 [@ EXCEPT !.state = "pending",
                           !.args = [context_messages |->
                                       SubSeq(Messages, 1, Len(Messages) - 1),
                                     last_message |-> last_patient_message]]]
         ELSE a_task
  /\ UNCHANGED <<active_conversations, a_call, a_messages, a_response, n_added>>
  /\ UNCHANGED thread_vars
  /\ UNCHANGED fn_vars
  /\ UNCHANGED handler_vars

\* a knowledge gate that tests `is not None` instead of the truth of the
\* text; C9 tells it from the code
KnowledgeGateNotNone ==
  /\ a_pc = "knowledge"
  /\ a_pc' = "await"
  /\ LET last_patient_message == _get_last_patient_message(Messages) IN
     a_task' =
       IF a_call.include_knowledge /\ last_patient_message # None
         THEN [a_task EXCEPT !["knowledge"] =
                 [@ EXCEPT !.state = "pending",
                           !.args = [query |-> last_patient_message]]]
         ELSE a_task
  /\ UNCHANGED <<active_conversations, a_call, a_messages, a_response, n_added>>
  /\ UNCHANGED thread_vars
  /\ UNCHANGED fn_vars
  /\ UNCHANGED handler_vars

\* lines 149-157
KnowledgeGate ==
  /\ a_pc = "knowledge"
  /\ a_pc' = "await"
  /\ LET last_patient_message == _get_last_patient_message(Messages) IN
     a_task' =
       IF a_call.include_knowledge /\ Truthy(last_patient_message)
         THEN [a_task EXCEPT !["knowledge"] =
                 [@ EXCEPT !.state = "pending",
                           !.args = [query |-> last_patient_message]]]
         ELSE a_task
  /\ UNCHANGED <<active_conversations, a_call, a_messages, a_response, n_added>>
  /\ UNCHANGED thread_vars
  /\ UNCHANGED fn_vars
  /\ UNCHANGED handler_vars

\* the tasks in state st, in the order of their creation
TasksIn(st) == SelectSeq(TaskNames, LAMBDA n : a_task[n].state = st)

\* the prompt the task hands to model.generate_content, from what it reads
PromptOf(name, read) ==
  CASE name = "summary" -> SummaryPrompt(read.messages)
    [] name = "smart_replies" -> SmartReplyPrompt(read.context_messages, read.last_message)
    [] name = "knowledge" -> KnowledgePrompt(read.query)

\* The loop starts the next task: the first one created that has not run,
\* once the task before it has returned.  The task redacts, formats its
\* prompt and calls the remote model.
TaskStart(name) ==
  /\ a_pc = "await"
  /\ TasksIn("running") = <<>>
  /\ TasksIn("pending") # <<>>
  /\ name = Head(TasksIn("pending"))
  /\ LET read == IF name = "summary" THEN [messages |-> Messages] ELSE a_task[name].args
     IN a_task' = [a_task EXCEPT ![name] =
                     [@ EXCEPT !.state = "running",
                               !.read = read,
                               !.sent = PromptOf(name, read)]]
  /\ UNCHANGED <<active_conversations, a_pc, a_call, a_messages, a_response, n_added>>
  /\ UNCHANGED thread_vars
  /\ UNCHANGED fn_vars
  /\ UNCHANGED handler_vars

\* what a task returns when the remote model answers
SummaryResults == {GeneratedText}

SmartRepliesResults ==
  {SmartReplies(<<>>), SmartReplies(<<GeneratedText, GeneratedText, GeneratedText>>)}

KnowledgeResults == {KnowledgeSnippets(GeneratedText)}

ResultsOf(name) ==
  CASE name = "summary" -> SummaryResults
    [] name = "smart_replies" -> SmartRepliesResults
    [] name = "knowledge" -> KnowledgeResults

\* the remote call of the running task answers, and the task returns
TaskReturn(name) ==
  /\ a_pc = "await"
  /\ a_task[name].state = "running"
  /\ \E result \in ResultsOf(name) :
       a_task' = [a_task EXCEPT ![name] = [@ EXCEPT !.state = "returned", !.result = result]]
  /\ UNCHANGED <<active_conversations, a_pc, a_call, a_messages, a_response, n_added>>
  /\ UNCHANGED thread_vars
  /\ UNCHANGED fn_vars
  /\ UNCHANGED handler_vars

\* the remote call of the running task fails, and the task raises
TaskRaise(name) ==
  /\ a_pc = "await"
  /\ a_task[name].state = "running"
  /\ a_task' = [a_task EXCEPT ![name].state = "raised"]
  /\ UNCHANGED <<active_conversations, a_pc, a_call, a_messages, a_response, n_added>>
  /\ UNCHANGED thread_vars
  /\ UNCHANGED fn_vars
  /\ UNCHANGED handler_vars

\* lines 160-166: the dict results, once every task is done
Results ==
  LET launched == {n \in Range(TaskNames) : a_task[n].state \in {"returned", "raised"}}
  IN [n \in launched |-> IF a_task[n].state = "returned" THEN a_task[n].result ELSE None]

ResultOr(results, name) == IF name \in DOMAIN results THEN results[name] ELSE None

\* lines 159-185: every task is done; collect the results and build the
\* response, or re-raise what _determine_next_best_action raises
AssistBuild ==
  /\ a_pc = "await"
  /\ TasksIn("pending") = <<>>
  /\ TasksIn("running") = <<>>
  /\ LET action == _determine_next_best_action(Messages) IN
     IF action.raised
       THEN /\ a_pc' = "raised"
            /\ a_response' = None
       ELSE /\ a_pc' = "returned"
            /\ a_response' =
                 [AgentAssistResponse(a_call.conversation_id, Now) EXCEPT
                    !.summary = ResultOr(Results, "summary"),
                    !.smart_replies = ResultOr(Results, "smart_replies"),
                    !.knowledge_snippets = ResultOr(Results, "knowledge"),
                    !.next_best_action = action.value,
                    !.confidence_score = _calculate_overall_confidence(Results)]
  /\ UNCHANGED <<active_conversations, a_call, a_messages, a_task, n_added>>
  /\ UNCHANGED thread_vars
  /\ UNCHANGED fn_vars
  /\ UNCHANGED handler_vars

Next ==
  \/ \E c \in ConvIds : register_conversation(c)
  \/ \E c \in ConvIds, m \in MessageInputs : add_message(c, m[1], m[2], None)
  \/ \E c \in ConvIds : close_conversation(c)
  \/ \E c \in ConvIds, s \in BOOLEAN, r \in BOOLEAN, k \in BOOLEAN : AssistFetch(c, s, r, k)
  \/ SummaryGate
  \/ SmartRepliesGate
  \/ KnowledgeGate
  \/ \E n \in Range(TaskNames) : TaskStart(n)
  \/ \E n \in Range(TaskNames) : TaskReturn(n)
  \/ \E n \in Range(TaskNames) : TaskRaise(n)
  \/ AssistBuild

Spec == Init /\ [][Next]_vars

(***************************************************************************)
(* The store under the request threads.  app.run serves each request in a  *)
(* thread of its own, and the handlers share the one AgentAssistService:   *)
(* its methods take no lock, so that a thread may be switched out between  *)
(* any two statements of register_conversation, add_message and            *)
(* close_conversation.  A step below is one statement.                     *)
(***************************************************************************)
\* the (role, text) pairs of the messages the threads add
ThreadMessageInputs == {<<"patient", Hi>>, <<"agent", Hi>>}

\* the list the store holds for the id, [] for an id it does not hold
Stored(conversation_id) ==
  IF conversation_id \in DOMAIN active_conversations
    THEN active_conversations[conversation_id]
    ELSE <<>>

\* the dict after self.active_conversations[conversation_id] = []
Assigned(store, conversation_id) ==
  [c \in DOMAIN store \cup {conversation_id} |->
     IF c = conversation_id THEN <<>> ELSE store[c]]

\* register_conversation returns: to line 67 of the add_message that called
\* it, or to the handler
RegisterReturn(t) ==
  IF threads[t].caller = "add_message"
    THEN [threads EXCEPT ![t].pc = "append"]
    ELSE [threads EXCEPT ![t] = Idle]

\* a thread enters add_message
AddMessageCall(t, conversation_id, role, text, timestamp) ==
  /\ threads[t].pc = "idle"
  /\ n_added < MaxMessages
  /\ n_added' = n_added + 1
  /\ threads' = [threads EXCEPT ![t] =
       [pc |-> "add_check", caller |-> "add_message",
        conversation_id |-> conversation_id,
        message |-> [role |-> role, text |-> text,
                     timestamp |-> IF timestamp # None THEN timestamp ELSE Now]]]
  /\ UNCHANGED <<active_conversations, appended, other_calls, assist_vars>>
  /\ UNCHANGED fn_vars
  /\ UNCHANGED handler_vars

\* line 64: if conversation_id not in self.active_conversations
AddMessageCheck(t) ==
  /\ threads[t].pc = "add_check"
  /\ threads' = [threads EXCEPT ![t].pc =
       IF threads[t].conversation_id \notin DOMAIN active_conversations
         THEN "register_check"
         ELSE "append"]
  /\ UNCHANGED <<active_conversations, appended, other_calls, n_added, assist_vars>>
  /\ UNCHANGED fn_vars
  /\ UNCHANGED handler_vars

\* a thread enters register_conversation from the webhook
RegisterCall(t, conversation_id) ==
  /\ threads[t].pc = "idle"
  /\ threads' = [threads EXCEPT ![t] =
       [pc |-> "register_check", caller |-> "register_conversation",
        conversation_id |-> conversation_id, message |-> None]]
  /\ other_calls' = TRUE
  /\ UNCHANGED <<active_conversations, appended, n_added, assist_vars>>
  /\ UNCHANGED fn_vars
  /\ UNCHANGED handler_vars

\* line 45: if conversation_id not in self.active_conversations
RegisterCheck(t) ==
  /\ threads[t].pc = "register_check"
  /\ threads' =
       IF threads[t].conversation_id \notin DOMAIN active_conversations
         THEN [threads EXCEPT ![t].pc = "register_assign"]
         ELSE RegisterReturn(t)
  /\ UNCHANGED <<active_conversations, appended, other_calls, n_added, assist_vars>>
  /\ UNCHANGED fn_vars
  /\ UNCHANGED handler_vars

\* line 46: self.active_conversations[conversation_id] = [], whatever the dict
\* holds for the id by now
RegisterAssign(t) ==
  /\ threads[t].pc = "register_assign"
  /\ active_conversations' = Assigned(active_conversations, threads[t].conversation_id)
  /\ threads' = RegisterReturn(t)
  /\ UNCHANGED <<appended, other_calls, n_added, assist_vars>>
  /\ UNCHANGED fn_vars
  /\ UNCHANGED handler_vars

\* lines 67-73: build the message and append it to the list the dict holds; a
\* KeyError when the id is gone ends the request without an append
AddMessageAppend(t) ==
  /\ threads[t].pc = "append"
  /\ IF threads[t].conversation_id \in DOMAIN active_conversations
       THEN /\ active_conversations' =
                 [active_conversations EXCEPT
                    ![threads[t].conversation_id] = Append(@, threads[t].message)]
            /\ appended' = Append(appended, threads[t].message)
       ELSE UNCHANGED <<active_conversations, appended>>
  /\ threads' = [threads EXCEPT ![t] = Idle]
  /\ UNCHANGED <<other_calls, n_added, assist_vars>>
  /\ UNCHANGED fn_vars
  /\ UNCHANGED handler_vars

\* a thread enters close_conversation
CloseCall(t, conversation_id) ==
  /\ threads[t].pc = "idle"
  /\ threads' = [threads EXCEPT ![t] =
       [pc |-> "close_check", caller |-> "close_conversation",
        conversation_id |-> conversation_id, message |-> None]]
  /\ other_calls' = TRUE
  /\ UNCHANGED <<active_conversations, appended, n_added, assist_vars>>
  /\ UNCHANGED fn_vars
  /\ UNCHANGED handler_vars

\* line 281: if conversation_id in self.active_conversations
CloseCheck(t) ==
  /\ threads[t].pc = "close_check"
  /\ threads' =
       IF threads[t].conversation_id \in DOMAIN active_conversations
         THEN [threads EXCEPT ![t].pc = "close_del"]
         ELSE [threads EXCEPT ![t] = Idle]
  /\ UNCHANGED <<active_conversations, appended, other_calls, n_added, assist_vars>>
  /\ UNCHANGED fn_vars
  /\ UNCHANGED handler_vars

\* line 282: del self.active_conversations[conversation_id]; a KeyError when
\* the id is gone
CloseDel(t) ==
  /\ threads[t].pc = "close_del"
  /\ active_conversations' = Closed(active_conversations, threads[t].conversation_id)
  /\ threads' = [threads EXCEPT ![t] = Idle]
  /\ UNCHANGED <<appended, other_calls, n_added, assist_vars>>
  /\ UNCHANGED fn_vars
  /\ UNCHANGED handler_vars

\* sum(len(msgs) for msgs in store.values())
RECURSIVE SumOfLengths(_, _)
SumOfLengths(store, ids) ==
  IF ids = {} THEN 0
  ELSE LET c == CHOOSE x \in ids : TRUE
       IN Len(store[c]) + SumOfLengths(store, ids \ {c})

\* a thread enters get_metrics; what the expressions of lines 291-300 have
\* given so far is held in the frame of the thread
MetricsCall(t) ==
  /\ threads[t].pc = "idle"
  /\ threads' = [threads EXCEPT ![t] =
       [pc |-> "metrics_count", caller |-> "get_metrics",
        conversation_id |-> "", message |-> None]]
  /\ UNCHANGED <<active_conversations, appended, other_calls, n_added, assist_vars>>
  /\ UNCHANGED fn_vars
  /\ UNCHANGED handler_vars

\* line 292: len(self.active_conversations)
MetricsCount(t) ==
  /\ threads[t].pc = "metrics_count"
  /\ threads' = [threads EXCEPT ![t] =
       [@ EXCEPT !.pc = "metrics_total",
                 !.message = [active_conversations |->
                                Cardinality(DOMAIN active_conversations)]]]
  /\ UNCHANGED <<active_conversations, appended, other_calls, n_added, assist_vars>>
  /\ UNCHANGED fn_vars
  /\ UNCHANGED handler_vars

\* lines 293-295: the sum of the lengths, taken over the dict as it is now
MetricsTotal(t) ==
  /\ threads[t].pc = "metrics_total"
  /\ threads' = [threads EXCEPT ![t] =
       [@ EXCEPT !.pc = "metrics_if",
                 !.message =
                   [active_conversations |-> threads[t].message.active_conversations,
                    total_messages |->
                      SumOfLengths(active_conversations, DOMAIN active_conversations)]]]
  /\ UNCHANGED <<active_conversations, appended, other_calls, n_added, assist_vars>>
  /\ UNCHANGED fn_vars
  /\ UNCHANGED handler_vars

\* what get_metrics returns with the average avg
MetricsOf(frame, avg) ==
  [active_conversations |-> frame.active_conversations,
   total_messages |-> frame.total_messages,
   avg_messages_per_conversation |-> avg]

\* line 299: if self.active_conversations, tested before the quotient of
\* lines 297-298 is taken; an empty dict gives 0 and the method returns
MetricsIf(t) ==
  /\ threads[t].pc = "metrics_if"
  /\ threads' =
       IF DOMAIN active_conversations # {}
         THEN [threads EXCEPT ![t].pc = "metrics_sum"]
         ELSE [threads EXCEPT ![t] = Idle]
  /\ UNCHANGED <<active_conversations, appended, other_calls, n_added, assist_vars>>
  /\ UNCHANGED fn_vars
  /\ UNCHANGED handler_vars

\* line 297: the sum of the lengths, taken again
MetricsSum(t) ==
  /\ threads[t].pc = "metrics_sum"
  /\ threads' = [threads EXCEPT ![t] =
       [@ EXCEPT !.pc = "metrics_div",
                 !.message =
                   [active_conversations |-> threads[t].message.active_conversations,
                    total_messages |-> threads[t].message.total_messages,
                    sum |-> SumOfLengths(active_conversations,
                                         DOMAIN active_conversations)]]]
  /\ UNCHANGED <<active_conversations, appended, other_calls, n_added, assist_vars>>
  /\ UNCHANGED fn_vars
  /\ UNCHANGED handler_vars

\* what the thread at line 299 or 298 is about to leave get_metrics with: the
\* dict of the three values, or the ZeroDivisionError of a quotient by the
\* len of a dict that is empty by now
MetricsOutcome(t) ==
  LET frame == threads[t].message
      count == Cardinality(DOMAIN active_conversations)
  IN IF threads[t].pc = "metrics_if"
       THEN Returned(MetricsOf(frame, Rat(0, 1)))
       ELSE IF count = 0
              THEN [raised |-> TRUE, value |-> None]
              ELSE Returned(MetricsOf(frame, Rat(frame.sum, count)))

\* line 298: / len(self.active_conversations), and the method returns or
\* raises
MetricsDiv(t) ==
  /\ threads[t].pc = "metrics_div"
  /\ threads' = [threads EXCEPT ![t] = Idle]
  /\ UNCHANGED <<active_conversations, appended, other_calls, n_added, assist_vars>>
  /\ UNCHANGED fn_vars
  /\ UNCHANGED handler_vars

NextThreads ==
  \/ \E t \in Threads, c \in ConvIds, m \in ThreadMessageInputs :
       AddMessageCall(t, c, m[1], m[2], None)
  \/ \E t \in Threads : AddMessageCheck(t)
  \/ \E t \in Threads, c \in ConvIds : RegisterCall(t, c)
  \/ \E t \in Threads : RegisterCheck(t)
  \/ \E t \in Threads : RegisterAssign(t)
  \/ \E t \in Threads : AddMessageAppend(t)
  \/ \E t \in Threads, c \in ConvIds : CloseCall(t, c)
  \/ \E t \in Threads : CloseCheck(t)
  \/ \E t \in Threads : CloseDel(t)
  \/ \E t \in Threads : MetricsCall(t)
  \/ \E t \in Threads : MetricsCount(t)
  \/ \E t \in Threads : MetricsTotal(t)
  \/ \E t \in Threads : MetricsIf(t)
  \/ \E t \in Threads : MetricsSum(t)
  \/ \E t \in Threads : MetricsDiv(t)

SpecThreads == Init /\ [][NextThreads]_vars

(***************************************************************************)
(* The methods called on their own, as the tests of the repository call    *)
(* them: the call is drawn with its arguments, and one step runs it.       *)
(***************************************************************************)
\* what the summary task can leave in results: None when it raised, else
\* response.text.strip(), which may be empty
SummaryOutcomes == {None, PyStr(<<>>), GeneratedText}

\* what the smart replies task can leave in results: None when it raised,
\* else the replies parsed from the answer, at most num_replies of them
SmartRepliesOutcomes ==
  {None} \cup {SmartReplies([i \in 1 .. k |-> GeneratedText]) : k \in 0 .. NumReplies}

\* what the knowledge task can leave in results
KnowledgeOutcomes == {None, KnowledgeSnippets(GeneratedText)}

OutcomesOf(name) ==
  CASE name = "summary" -> SummaryOutcomes
    [] name = "smart_replies" -> SmartRepliesOutcomes
    [] name = "knowledge" -> KnowledgeOutcomes

\* the results dicts of lines 160-166: one entry per task created
ResultsInputs ==
  UNION {{results \in [launched -> UNION {OutcomesOf(n) : n \in launched}] :
            \A n \in launched : results[n] \in OutcomesOf(n)} :
         launched \in SUBSET Range(TaskNames)}

ConfidenceCalls ==
  {[name |-> "_calculate_overall_confidence", results |-> results] :
     results \in ResultsInputs}

\* the texts of the last message: every keyword of the rules on its own,
\* sentences that hold keywords of several rules or of none, the empty text
\* and the null text the add-message route lets through
ActionKeywords ==
  UNION {{PyStr(w) : w \in Range(ActionRules[k].words)} : k \in DOMAIN ActionRules}

ActionSentences ==
  {
    PyStr(<<"I", " ", "n", "e", "e", "d", " ", "t", "o", " ", "s", "c",
            "h", "e", "d", "u", "l", "e", " ", "a", "n", " ", "a", "p",
            "p", "o", "i", "n", "t", "m", "e", "n", "t">>),
    PyStr(<<"B", "o", "o", "k", " ", "a", " ", "l", "a", "b", " ", "t",
            "e", "s", "t">>),
    PyStr(<<"M", "y", " ", "i", "n", "s", "u", "r", "a", "n", "c", "e",
            " ", "c", "o", "v", "e", "r", "s", " ", "t", "h", "e", " ",
            "p", "r", "e", "s", "c", "r", "i", "p", "t", "i", "o", "n">>),
    PyStr(<<"C", "a", "n", " ", "I", " ", "t", "a", "l", "k", " ", "t",
            "o", " ", "s", "o", "m", "e", "o", "n", "e", " ", "a", "b",
            "o", "u", "t", " ", "m", "y", " ", "t", "e", "s", "t", " ",
            "r", "e", "s", "u", "l", "t", "s">>),
    PyStr(<<"H", "E", "L", "L", "O">>),
    PyStr(<<>>)}

ActionTexts == ActionKeywords \cup ActionSentences \cup {None}

ActionRoles == {"patient", "agent", "system"}

ActionLastMessages ==
  {[role |-> role, text |-> text, timestamp |-> Now] :
     role \in ActionRoles, text \in ActionTexts}

\* the messages that stand before the last one
ActionEarlierMessages ==
  {[role |-> "patient", text |-> PyStr(<<"r", "e", "f", "i", "l", "l">>), timestamp |-> Now],
   [role |-> "agent", text |-> PyStr(<<"b", "o", "o", "k">>), timestamp |-> Now]}

ActionCalls ==
  {[name |-> "_determine_next_best_action", messages |-> messages] :
     messages \in {<<>>}
       \cup {<<last>> : last \in ActionLastMessages}
       \cup {<<earlier, last>> :
               earlier \in ActionEarlierMessages, last \in ActionLastMessages}}

\* "Call me at 555-1234" and "SSN: 123-45-6789", the values of test_redact_dict
LocalPhoneText ==
  PyStr(<<"C", "a", "l", "l", " ", "m", "e", " ", "a", "t", " ", "5", "5",
          "5", "-", "1", "2", "3", "4">>)

SsnInfoText ==
  PyStr(<<"S", "S", "N", ":", " ", "1", "2", "3", "-", "4", "5", "-", "6",
          "7", "8", "9">>)

\* the texts redact is called on: one instance of each category, two of one
\* category, an instance of one category inside an instance of another, a
\* copy of an instance inside a longer word, texts without an instance, the
\* empty text and None
RedactTexts ==
  {
    PyStr(<<"M", "y", " ", "S", "S", "N", " ", "i", "s", " ", "1", "2", "3",
            "-", "4", "5", "-", "6", "7", "8", "9">>),
    PyStr(<<"S", "S", "N", " ", "1", "2", "3", "-", "4", "5", "-", "6", "7",
            "8", "9", " ", "a", "n", "d", " ", "9", "8", "7", "-", "6", "5",
            "-", "4", "3", "2", "1">>),
    PyStr(<<"x", "1", "2", "3", "-", "4", "5", "-", "6", "7", "8", "9", " ",
            "1", "2", "3", "-", "4", "5", "-", "6", "7", "8", "9">>),
    PyStr(<<"C", "a", "l", "l", " ", "m", "e", " ", "a", "t", " ", "5", "5",
            "5", "-", "1", "2", "3", "-", "4", "5", "6", "7">>),
    PyStr(<<"E", "m", "a", "i", "l", ":", " ", "p", "a", "t", "i", "e", "n",
            "t", "@", "e", "x", "a", "m", "p", "l", "e", ".", "c", "o", "m">>),
    PyStr(<<"a", ".", "5", "5", "5", "-", "1", "2", "3", "-", "4", "5", "6",
            "7", "@", "b", ".", "c", "o">>),
    PyStr(<<"M", "R", "N", " ", "1", "2", "3", "4", "5", "6", "7", "8", "9">>),
    PyStr(<<"M", "R", "N", ":", "1", "2", "3", "4", "5", "6", "7">>),
    PyStr(<<"P", "a", "t", "i", "e", "n", "t", " ", "I", "D", ":", "1", "2",
            "3", "4", "5", "6">>),
    PyStr(<<"p", "o", "l", "i", "c", "y", " ", "1", "2", "3", "4", "5", "6",
            "7", "8", "9", "0", "1", "2">>),
    PyStr(<<"P", "o", "l", "i", "c", "y", " ", "#", "1", "2", "3", "4", "5",
            "6", "7", "8">>),
    PyStr(<<"c", "a", "r", "d", " ", "1", "2", "3", "4", "-", "5", "6", "7",
            "8", "-", "9", "0", "1", "2", "-", "3", "4", "5", "6">>),
    PyStr(<<"D", "O", "B", " ", "0", "1", "/", "1", "5", "/", "1", "9", "9",
            "0">>),
    PyStr(<<"I", " ", "n", "e", "e", "d", " ", "t", "o", " ", "s", "c", "h",
            "e", "d", "u", "l", "e", " ", "a", "n", " ", "a", "p", "p", "o",
            "i", "n", "t", "m", "e", "n", "t">>),
    PyStr(<<"C", "a", "l", "l", " ", "m", "e", " ", "a", "t", " ", "5", "5",
            "5", "-", "1", "2", "3", "4">>),
    PyStr(<<"P", "a", "t", "i", "e", "n", "t", " ", "I", "D", ":", " ", "1",
            "2", "3", "4", "5", "6", ",", " ", "S", "S", "N", ":", " ", "1",
            "2", "3", "-", "4", "5", "-", "6", "7", "8", "9", ",", " ", "c",
            "a", "l", "l", " ", "5", "5", "5", "-", "1", "2", "3", "4">>),
    PyStr(<<"1", "2", "3", "-", "4", "5", "-", "6", "7", "8", "9", "@", "e",
            "x", "a", "m", "p", "l", "e", ".", "c", "o", "m">>),
    PyStr(<<"S", "S", "N", " ", "1", "2", "3", "-", "4", "5", "-", "6", "7",
            "8", "9", " ", "M", "R", "N", ":", "1", "2", "3", "4", "5", "6",
            "7", " ", "0", "1", "/", "1", "5", "/", "1", "9", "9", "0">>),
    PyStr(<<>>),
    None}

RedactCalls == {[name |-> "redact", text |-> text] : text \in RedactTexts}

\* the dicts redact_dict is called on: str values, a dict in a dict (twice
\* deep), a list of str, a dict in a list, a list in a list, a value that
\* is no str, the dict of test_redact_dict, the empty dict and None
StructuredInputs ==
  {PyDict(("a" :> Ssn) @@ ("b" :> Ssn)),
   PyDict(("a" :> PyDict(("n" :> Ssn))) @@ ("b" :> Hi)),
   PyDict(("a" :> PyDict(("n" :> PyDict(("a" :> Ssn)))))),
   PyDict(("a" :> PyList(<<Ssn, Hi>>))),
   PyDict(("a" :> PyList(<<PyDict(("n" :> Ssn))>>))),
   PyDict(("a" :> PyList(<<PyList(<<Ssn>>)>>))),
   PyDict(("a" :> PyInt(5)) @@ ("n" :> Ssn)),
   PyDict(("message" :> LocalPhoneText) @@ ("patient_info" :> SsnInfoText)),
   EmptyDict,
   None}

\* keys_to_redact: not given, or a list of keys
KeysToRedact == {None, PyList(<<"a">>), PyList(<<"a", "n">>)}

StructuredCalls ==
  {[name |-> "redact_dict", data |-> data, keys_to_redact |-> keys] :
     data \in StructuredInputs, keys \in KeysToRedact}

SafeCalls == {[name |-> "is_text_safe", text |-> text] : text \in RedactTexts}

CallInputs ==
  ConfidenceCalls \cup ActionCalls \cup RedactCalls \cup SafeCalls
    \cup StructuredCalls

InitCalls ==
  /\ InitService
  /\ fn_call \in CallInputs
  /\ fn_result = NoResult
  /\ webhook_secret = None

CalculateOverallConfidence ==
  /\ fn_call.name = "_calculate_overall_confidence"
  /\ fn_result = NoResult
  /\ fn_result' = Returned(_calculate_overall_confidence(fn_call.results))
  /\ UNCHANGED <<fn_call, active_conversations, n_added, assist_vars, thread_vars, handler_vars>>

\* _determine_next_best_action returns its recommendation, or raises
DetermineNextBestAction ==
  /\ fn_call.name = "_determine_next_best_action"
  /\ fn_result = NoResult
  /\ fn_result' = _determine_next_best_action(fn_call.messages)
  /\ UNCHANGED <<fn_call, active_conversations, n_added, assist_vars, thread_vars, handler_vars>>

Redact ==
  /\ fn_call.name = "redact"
  /\ fn_result = NoResult
  /\ fn_result' = Returned(redact(fn_call.text, None))
  /\ UNCHANGED <<fn_call, active_conversations, n_added, assist_vars, thread_vars, handler_vars>>

IsTextSafe ==
  /\ fn_call.name = "is_text_safe"
  /\ fn_result = NoResult
  /\ fn_result' = Returned(PyBool(is_text_safe(fn_call.text)))
  /\ UNCHANGED <<fn_call, active_conversations, n_added, assist_vars, thread_vars, handler_vars>>

RedactDict ==
  /\ fn_call.name = "redact_dict"
  /\ fn_result = NoResult
  /\ fn_result' = Returned(redact_dict(fn_call.data, fn_call.keys_to_redact))
  /\ UNCHANGED <<fn_call, active_conversations, n_added, assist_vars, thread_vars, handler_vars>>

NextCalls ==
  \/ CalculateOverallConfidence
  \/ DetermineNextBestAction
  \/ Redact
  \/ IsTextSafe
  \/ RedactDict

SpecCalls == InitCalls /\ [][NextCalls]_vars

(***************************************************************************)
(* The store under calls made one after the other: each of                 *)
(* register_conversation, add_message, close_conversation,                 *)
(* get_conversation_history and get_metrics runs as a whole, on two        *)
(* conversations.  fn_call holds the last call, fn_result what it returned.*)
(***************************************************************************)
StoreIds == {"c1", "c2"}

\* the (role, text) pairs of the messages added
StoreMessageInputs == {<<"patient", Hi>>, <<"agent", Hi>>}

\* the limits of get_conversation_history: None, and 0 to one more than the
\* longest history
HistoryLimits == {None} \cup {PyInt(n) : n \in 0 .. MaxMessages + 1}

\* metrics whose average is the integer quotient; C17 tells it from the code
get_metrics_floor(store) ==
  LET total == SumOfLengths(store, DOMAIN store)
      count == Cardinality(DOMAIN store)
  IN [active_conversations |-> count,
      total_messages |-> total,
      avg_messages_per_conversation |->
        IF count # 0 THEN Rat(total \div count, 1) ELSE Rat(0, 1)]

\* AgentAssistService.get_metrics: a float average, or the int 0 of the else
\* branch
get_metrics(store) ==
  LET total == SumOfLengths(store, DOMAIN store)
      count == Cardinality(DOMAIN store)
  IN [active_conversations |-> count,
      total_messages |-> total,
      avg_messages_per_conversation |->
        IF count # 0 THEN Rat(total, count) ELSE Rat(0, 1)]

CallRegister(conversation_id) ==
  /\ active_conversations' = Registered(active_conversations, conversation_id)
  /\ fn_call' = [name |-> "register_conversation", conversation_id |-> conversation_id]
  /\ fn_result' = Returned(None)
  /\ UNCHANGED <<n_added, assist_vars, thread_vars, handler_vars>>

CallAddMessage(conversation_id, role, text, timestamp) ==
  /\ n_added < MaxMessages
  /\ n_added' = n_added + 1
  /\ active_conversations' =
       Added(active_conversations, conversation_id, role, text, timestamp)
  /\ fn_call' = [name |-> "add_message", conversation_id |-> conversation_id]
  /\ fn_result' = Returned(None)
  /\ UNCHANGED <<assist_vars, thread_vars, handler_vars>>

CallClose(conversation_id) ==
  /\ active_conversations' = Closed(active_conversations, conversation_id)
  /\ fn_call' = [name |-> "close_conversation", conversation_id |-> conversation_id]
  /\ fn_result' = Returned(None)
  /\ UNCHANGED <<n_added, assist_vars, thread_vars, handler_vars>>

\* a read through setdefault, which registers the id it is asked about; C13
\* tells it from the code
CallHistorySetdefault(conversation_id, limit) ==
  /\ fn_call' = [name |-> "get_conversation_history",
                 conversation_id |-> conversation_id, limit |-> limit]
  /\ fn_result' =
       Returned(get_conversation_history(active_conversations, conversation_id, limit))
  /\ active_conversations' = Registered(active_conversations, conversation_id)
  /\ UNCHANGED <<n_added, assist_vars, thread_vars, handler_vars>>

CallHistory(conversation_id, limit) ==
  /\ fn_call' = [name |-> "get_conversation_history",
                 conversation_id |-> conversation_id, limit |-> limit]
  /\ fn_result' =
       Returned(get_conversation_history(active_conversations, conversation_id, limit))
  /\ UNCHANGED <<active_conversations, n_added, assist_vars, thread_vars, handler_vars>>

CallMetrics ==
  /\ fn_call' = [name |-> "get_metrics"]
  /\ fn_result' = Returned(get_metrics(active_conversations))
  /\ UNCHANGED <<active_conversations, n_added, assist_vars, thread_vars, handler_vars>>

NextStore ==
  \/ \E c \in StoreIds : CallRegister(c)
  \/ \E c \in StoreIds, m \in StoreMessageInputs : CallAddMessage(c, m[1], m[2], None)
  \/ \E c \in StoreIds : CallClose(c)
  \/ \E c \in StoreIds, limit \in HistoryLimits : CallHistory(c, limit)
  \/ CallMetrics

SpecStore == Init /\ [][NextStore]_vars

(***************************************************************************)
(* The Genesys webhook route: a request arrives at a store and runs as a   *)
(* whole, from the validation of its signature to its response.  fn_call   *)
(* holds the request, fn_result its response.                              *)
(***************************************************************************)
\* conversation ids and event types are TLA+ strings, as the keys of the
\* store are; Null is what a missing or null one reads as (None), and is the
\* key None of the store
Null == "None"

\* d.get(key, default)
Get(d, key, default) == IF key \in DOMAIN d.items THEN d.items[key] ELSE default

\* bool(v) of an id or event type
Given(v) == v \notin {Null, ""}

EVENT_CONVERSATION_START == "v2.conversations.start"

EVENT_MESSAGE_RECEIVED == "v2.conversations.messages.created"

EVENT_AGENT_JOINED == "v2.conversations.participants.agent.joined"

EVENT_CONVERSATION_END == "v2.conversations.end"

\* hmac.new(key, body, hashlib.sha256).hexdigest(): a str that names the key
\* and the body; two digests are equal when both are
HmacSha256(key, body) == [type |-> "str", chars |-> <<"hmac", key, body>>]

\* validation that accepts a request without the header; C18 tells it from
\* the code
validate_signature_if_present(secret, request) ==
  IF ~Truthy(secret) THEN TRUE
  ELSE IF ~Truthy(request.signature) THEN TRUE
  ELSE request.signature = HmacSha256(secret, request.data)

\* GenesysWebhookHandler.validate_signature: request.signature is the
\* X-Genesys-Signature header, request.data the body
validate_signature(secret, request) ==
  IF ~Truthy(secret) THEN TRUE
  ELSE IF ~Truthy(request.signature) THEN FALSE
  ELSE request.signature = HmacSha256(secret, request.data)

\* what a handler did: the store after it, the number of messages it added
\* and the dict it returned, or raised
Handled(store, added, response) ==
  [store |-> store, added |-> added, raised |-> FALSE, response |-> response]

Raised(store) ==
  [store |-> store, added |-> 0, raised |-> TRUE, response |-> None]

_handle_conversation_start(store, payload) ==
  LET conversation_id == Get(payload, "id", Null) IN
  IF Given(conversation_id)
    THEN Handled(Registered(store, conversation_id), 0,
                 [status |-> "processed", conversation_id |-> conversation_id,
                  action |-> "registered"])
    ELSE Handled(store, 0, [status |-> "error", message |-> "No conversation ID"])

\* a handler that stores the sender type as the role; C19 tells it from the
\* code
_handle_message_received_as_sent(store, payload) ==
  LET conversation_id == Get(payload, "conversationId", Null)
      message == Get(payload, "message", EmptyDict)
  IN IF ~Given(conversation_id) \/ ~Truthy(message)
       THEN Handled(store, 0, [status |-> "error", message |-> "Invalid payload"])
       ELSE IF message.type # "dict" THEN Raised(store)
       ELSE LET role == Get(message, "type", "unknown")
            IN Handled(Added(store, conversation_id, role,
                             Get(message, "text", PyStr(<<>>)),
                             Get(message, "timestamp", None)), 1,
                       [status |-> "processed", conversation_id |-> conversation_id,
                        message_role |-> role])

\* message.get raises AttributeError when message is not a dict
_handle_message_received(store, payload) ==
  LET conversation_id == Get(payload, "conversationId", Null)
      message == Get(payload, "message", EmptyDict)
  IN IF ~Given(conversation_id) \/ ~Truthy(message)
       THEN Handled(store, 0, [status |-> "error", message |-> "Invalid payload"])
       ELSE IF message.type # "dict" THEN Raised(store)
       ELSE LET sender_type == Get(message, "type", "unknown")
                text == Get(message, "text", PyStr(<<>>))
                timestamp == Get(message, "timestamp", None)
                role == IF sender_type = "agent" THEN "agent" ELSE "patient"
            IN Handled(Added(store, conversation_id, role, text, timestamp), 1,
                       [status |-> "processed", conversation_id |-> conversation_id,
                        message_role |-> role])

\* f"Agent {agent_name} joined the conversation"
JoinedNote(agent_name) ==
  PyStr(<<"A", "g", "e", "n", "t", " ">> \o Format(agent_name)
          \o <<" ", "j", "o", "i", "n", "e", "d", " ", "t", "h", "e", " ",
               "c", "o", "n", "v", "e", "r", "s", "a", "t", "i", "o", "n">>)

\* participant.get raises AttributeError when participant is not a dict
_handle_agent_joined(store, payload) ==
  LET conversation_id == Get(payload, "conversationId", Null)
      participant == Get(payload, "participant", EmptyDict)
  IN IF participant.type # "dict" THEN Raised(store)
     ELSE LET agent_id == Get(participant, "userId", None)
              agent_name == Get(participant, "name", PyStr(<<"A", "g", "e", "n", "t">>))
          IN Handled(Added(store, conversation_id, "system", JoinedNote(agent_name), None),
                     1,
                     [status |-> "processed", conversation_id |-> conversation_id,
                      agent_id |-> agent_id, action |-> "agent_joined"])

_handle_conversation_end(store, payload) ==
  LET conversation_id == Get(payload, "id", Null) IN
  IF Given(conversation_id)
    THEN Handled(Closed(store, conversation_id), 0,
                 [status |-> "processed", conversation_id |-> conversation_id,
                  action |-> "closed"])
    ELSE Handled(store, 0, [status |-> "error", message |-> "No conversation ID"])

\* GenesysWebhookHandler.handle_webhook
handle_webhook(store, event_type, payload) ==
  CASE event_type = EVENT_CONVERSATION_START -> _handle_conversation_start(store, payload)
    [] event_type = EVENT_MESSAGE_RECEIVED -> _handle_message_received(store, payload)
    [] event_type = EVENT_AGENT_JOINED -> _handle_agent_joined(store, payload)
    [] event_type = EVENT_CONVERSATION_END -> _handle_conversation_end(store, payload)
    [] OTHER -> Handled(store, 0, [status |-> "ignored", event_type |-> event_type])

\* data.get('topicName') or data.get('eventType')
EventTypeOf(data) ==
  IF Given(Get(data, "topicName", Null))
    THEN Get(data, "topicName", Null) ELSE Get(data, "eventType", Null)

HttpResponse(status_code, json) == [status_code |-> status_code, json |-> json]

\* genesys_webhook of app.py: the store after the request, the number of
\* messages added and the response
genesys_webhook(secret, store, request) ==
  IF ~validate_signature(secret, request)
    THEN Handled(store, 0, HttpResponse(401, [error |-> "Invalid signature"]))
  ELSE IF ~Truthy(request.data)
    THEN Handled(store, 0, HttpResponse(400, [error |-> "Invalid payload"]))
  ELSE LET h == handle_webhook(store, EventTypeOf(request.data), request.data)
       IN IF h.raised
            THEN Handled(store, 0, HttpResponse(500, [error |-> "AttributeError"]))
            ELSE Handled(h.store, h.added, HttpResponse(200, h.response))

\* the ids the events carry: none, the empty one and two conversations
WebhookIds == {Null, "", "c1", "c2"}

\* a dict with the key when the value is given, without it otherwise
Entry(key, value) ==
  IF value = Null THEN [k \in {} |-> Null] ELSE (key :> value)

AgentMessage == PyDict(("type" :> "agent") @@ ("text" :> Hi))

CustomerMessage == PyDict(("type" :> "customer") @@ ("text" :> Hi))

\* a message without type and text
BareMessage == PyDict(("timestamp" :> PyStr(<<"t", "1">>)))

\* the "message" of a message event: a dict, an empty dict or a str
WebhookMessages == {AgentMessage, CustomerMessage, BareMessage, EmptyDict, Hi}

NamedParticipant ==
  PyDict(("userId" :> PyStr(<<"a", "1">>)) @@ ("name" :> PyStr(<<"K", "i", "m">>)))

\* the "participant" of an agent-joined event: a dict, an empty dict or null
WebhookParticipants == {NamedParticipant, EmptyDict, None}

StartPayloads ==
  {PyDict(("topicName" :> EVENT_CONVERSATION_START) @@ Entry("id", c)) :
     c \in WebhookIds}

EndPayloads ==
  {PyDict(("topicName" :> EVENT_CONVERSATION_END) @@ Entry("id", c)) :
     c \in WebhookIds}

MessagePayloads ==
  {PyDict(("topicName" :> EVENT_MESSAGE_RECEIVED) @@ Entry("conversationId", c)
            @@ ("message" :> m)) : c \in WebhookIds, m \in WebhookMessages}
  \cup {PyDict(("topicName" :> EVENT_MESSAGE_RECEIVED) @@ Entry("conversationId", c)) :
          c \in WebhookIds}

JoinedPayloads ==
  {PyDict(("topicName" :> EVENT_AGENT_JOINED) @@ Entry("conversationId", c)
            @@ ("participant" :> p)) : c \in WebhookIds, p \in WebhookParticipants}
  \cup {PyDict(("topicName" :> EVENT_AGENT_JOINED) @@ Entry("conversationId", c)) :
          c \in WebhookIds}

\* events of no known type, events named by eventType, and bodies that are
\* null or empty
OtherPayloads ==
  {PyDict(("topicName" :> "v2.users.presence") @@ ("id" :> "c1")),
   PyDict(("id" :> "c1")),
   PyDict(("eventType" :> EVENT_CONVERSATION_START) @@ ("id" :> "c2")),
   PyDict(("eventType" :> EVENT_CONVERSATION_END) @@ ("topicName" :> "") @@ ("id" :> "c1")),
   EmptyDict,
   None}

WebhookData ==
  StartPayloads \cup EndPayloads \cup MessagePayloads \cup JoinedPayloads
    \cup OtherPayloads

Secret == PyStr(<<"k", "1">>)

OtherSecret == PyStr(<<"k", "2">>)

\* GENESYS_WEBHOOK_SECRET: unset or set
WebhookSecrets == {None, Secret}

\* the X-Genesys-Signature header of a request with a body: missing, empty,
\* the digest of the body under the secret, under another secret, or the
\* digest of another body
SignaturesOf(data) ==
  {None, PyStr(<<>>), HmacSha256(Secret, data), HmacSha256(OtherSecret, data),
   HmacSha256(Secret, EmptyDict)}

WebhookRequests ==
  UNION {{[signature |-> sig, data |-> data] : sig \in SignaturesOf(data)} :
           data \in WebhookData}

\* the histories a conversation has when an event arrives: up to
\* MaxMessages messages of patient and agent
RECURSIVE HistoriesOfLength(_)
HistoriesOfLength(n) ==
  IF n = 0 THEN {<<>>}
  ELSE {Append(h, [role |-> m[1], text |-> m[2], timestamp |-> Now]) :
          h \in HistoriesOfLength(n - 1), m \in StoreMessageInputs}

WebhookHistories == UNION {HistoriesOfLength(n) : n \in 0 .. MaxMessages}

\* the stores an event arrives at: c1 untracked or with any history, c2
\* untracked or with a history of at most one message
WebhookStores ==
  {[c \in ids |-> IF c = "c1" THEN h1 ELSE h2] :
     ids \in SUBSET {"c1", "c2"},
     h1 \in WebhookHistories,
     h2 \in HistoriesOfLength(0) \cup HistoriesOfLength(1)}

InitWebhook ==
  /\ active_conversations \in WebhookStores
  /\ n_added = SumOfLengths(active_conversations, DOMAIN active_conversations)
  /\ a_pc = "idle"
  /\ a_call = NoCall
  /\ a_messages = NoMessages
  /\ a_task = [n \in Range(TaskNames) |-> NoTask]
  /\ a_response = None
  /\ threads = [t \in Threads |-> Idle]
  /\ appended = <<>>
  /\ other_calls = FALSE
  /\ fn_call = NoFn
  /\ fn_result = NoResult
  /\ webhook_secret \in WebhookSecrets

GenesysWebhook(request) ==
  LET r == genesys_webhook(webhook_secret, active_conversations, request) IN
  /\ fn_result = NoResult
  /\ n_added' = n_added + r.added
  /\ active_conversations' = r.store
  /\ fn_call' = [name |-> "genesys_webhook", request |-> request]
  /\ fn_result' = Returned(r.response)
  /\ UNCHANGED <<assist_vars, thread_vars, handler_vars>>

NextWebhook == \E request \in WebhookRequests : GenesysWebhook(request)

SpecWebhook == InitWebhook /\ [][NextWebhook]_vars

(***************************************************************************)
(* Properties                                                              *)
(***************************************************************************)
Started(name) == a_task[name].state \in {"running", "returned", "raised"}

Launched(name) == a_task[name].state # "none"

\* the text of v as it stands in a prompt once the Redaction Gate has passed it
Redacted(v) == Format(redact(v, None).text)

RedactedLines(messages, lines) ==
  /\ Len(lines) = Len(messages)
  /\ \A i \in DOMAIN messages : lines[i].text = Redacted(messages[i].text)

\* C1: every text a generation operation hands to the model is the output of
\* redact on the text the operation was given: the messages of the summary,
\* the context and the last patient message of the smart replies, and the
\* query of the knowledge snippet.
C1_PromptsAreRedacted ==
  /\ Started("summary") =>
       RedactedLines(a_task["summary"].read.messages,
                     a_task["summary"].sent.conversation)
  /\ Started("smart_replies") =>
       /\ RedactedLines(LastN(a_task["smart_replies"].read.context_messages, ContextWindow),
                        a_task["smart_replies"].sent.context)
       /\ a_task["smart_replies"].sent.last_message =
            Redacted(a_task["smart_replies"].read.last_message)
  /\ Started("knowledge") =>
       a_task["knowledge"].sent.query = Redacted(a_task["knowledge"].read.query)

\* the field of the response that holds the result of the task
FieldOf(name) ==
  CASE name = "summary" -> a_response.summary
    [] name = "smart_replies" -> a_response.smart_replies
    [] name = "knowledge" -> a_response.knowledge_snippets

\* C2: when some of the launched operations raise, the call still returns a
\* response: the fields of the operations that raised are null, every launched
\* operation that returned has its result in its field, and the
\* next-best-action is populated.
C2_FailureIsolated ==
  (CallOver /\ \E n \in Range(TaskNames) : a_task[n].state = "raised") =>
    /\ a_pc = "returned"
    /\ a_response # None
    /\ \A n \in Range(TaskNames) :
         /\ a_task[n].state = "raised" => FieldOf(n) = None
         /\ a_task[n].state = "returned" => FieldOf(n) = a_task[n].result
    /\ a_response.next_best_action # None

\* C3: the launched operations are not serialized: while the remote call of
\* one operation is in flight, an operation that has been launched and has
\* not started can start; it does not wait for the other one to finish.
C3_OperationsOverlap ==
  \A n, m \in Range(TaskNames) :
    (a_task[n].state = "running" /\ a_task[m].state = "pending") => ENABLED TaskStart(m)

\* the number of times message m stands in the list s
Count(s, m) == Cardinality({i \in DOMAIN s : s[i] = m})

\* C4: concurrent add_message calls on one conversation lose no update: once
\* every call of an interleaving of add_message calls has returned, with no
\* register_conversation or close_conversation call made (the calls register
\* the conversation themselves), the history of the conversation holds
\* exactly the messages of those calls.
C4_NoLostUpdate ==
  (~other_calls /\ \A t \in Threads : threads[t].pc = "idle") =>
    \A c \in ConvIds :
      /\ Len(Stored(c)) = Len(appended)
      /\ \A m \in Range(appended) : Count(Stored(c), m) = Count(appended, m)

\* C5: a generate_real_time_assist call that is over has returned a response;
\* it never raises, whatever the roles and texts of the history, the flags and
\* the outcomes of the generation operations.
C5_AlwaysAResponse == CallOver => (a_pc = "returned" /\ a_response # None)

\* C6: a call on a conversation with no message (unknown id, or registered
\* and empty) returns a response without summary, smart replies and knowledge
\* snippets, with confidence 0.5.
C6_EmptyHistoryResponse ==
  [][(a_pc # "await" /\ a_pc' = "returned") =>
       /\ a_response'.summary = None
       /\ a_response'.smart_replies = None
       /\ a_response'.knowledge_snippets = None
       /\ a_response'.confidence_score = Rat(1, 2)]_vars

\* C7: summarize is invoked only when include_summary is set and the history
\* holds at least 3 messages, and a response for a history of fewer than 3
\* messages has no summary, whatever the flags.
C7_SummaryGated ==
  /\ Launched("summary") =>
       (a_call.include_summary /\ Len(Messages) >= 3)
  /\ Started("summary") => Len(a_task["summary"].read.messages) >= 3
  /\ (a_pc = "returned" /\ Len(Messages) < 3) => a_response.summary = None

\* C7 happens: a response for a history of two messages, summary requested
C7_Witness ==
  /\ a_pc = "returned"
  /\ a_call.include_summary
  /\ Len(Messages) = 2
  /\ a_response.knowledge_snippets # None

\* i is the most recent message of messages whose role is patient
MostRecentPatient(messages, i) ==
  /\ i \in DOMAIN messages
  /\ messages[i].role = "patient"
  /\ \A j \in DOMAIN messages : j > i => messages[j].role # "patient"

\* C8: suggestReplies is launched only when include_smart_replies is set, the
\* history holds at least 2 messages and one of them has role patient, and
\* its last_message argument is the text of the most recent message whose
\* role is patient.
C8_SmartRepliesGated ==
  [][(~Launched("smart_replies") /\ Launched("smart_replies")') =>
       /\ a_call.include_smart_replies
       /\ Len(Messages) >= 2
       /\ \E i \in DOMAIN Messages :
            /\ MostRecentPatient(Messages, i)
            /\ a_task'["smart_replies"].args.last_message = Messages[i].text]_vars

\* C8 happens: the replies are launched for a history that ends with an agent
\* message and holds two patient messages
C8_Witness ==
  /\ a_task["smart_replies"].state = "pending"
  /\ Len(Messages) = 3
  /\ Messages[1].role = "patient" /\ Messages[1].text = Hi
  /\ Messages[2].role = "patient" /\ Messages[2].text = Ssn
  /\ Messages[3].role = "agent"
  /\ a_task["smart_replies"].args.last_message = Ssn

\* C9 as stated: the knowledge snippet is launched exactly when
\* include_knowledge is set and the history holds a message whose role is
\* patient, whatever its text.
C9_KnowledgeWheneverPatient ==
  [][(a_pc = "knowledge" /\ a_pc' = "await") =>
       (Launched("knowledge")' <=>
          (a_call.include_knowledge
             /\ \E i \in DOMAIN Messages : Messages[i].role = "patient"))]_vars

\* C9 amended: the knowledge snippet is launched exactly when
\* include_knowledge is set and the most recent message whose role is patient
\* has a text that is neither null nor empty; the query is that text.
C9_KnowledgeGated ==
  [][(a_pc = "knowledge" /\ a_pc' = "await") =>
       /\ Launched("knowledge")' <=>
            (a_call.include_knowledge
               /\ \E i \in DOMAIN Messages :
                    /\ MostRecentPatient(Messages, i)
                    /\ Messages[i].text # None
                    /\ Messages[i].text # PyStr(<<>>))
       /\ Launched("knowledge")' =>
            \E i \in DOMAIN Messages :
              /\ MostRecentPatient(Messages, i)
              /\ a_task'["knowledge"].args.query = Messages[i].text]_vars

\* C9 happens: the call skips the knowledge snippet for a history whose most
\* recent patient message has an empty text, after a patient message with a
\* text
C9_Witness ==
  /\ a_pc = "await"
  /\ a_call.include_knowledge
  /\ ~Launched("knowledge")
  /\ Len(Messages) = 2
  /\ Messages[1].role = "patient" /\ Messages[1].text = Hi
  /\ Messages[2].role = "patient" /\ Messages[2].text = PyStr(<<>>)

\* a step of generate_real_time_assist
AssistStep ==
  \/ \E c \in ConvIds, s \in BOOLEAN, r \in BOOLEAN, k \in BOOLEAN : AssistFetch(c, s, r, k)
  \/ SummaryGate
  \/ SmartRepliesGate
  \/ KnowledgeGate
  \/ \E n \in Range(TaskNames) : TaskStart(n) \/ TaskReturn(n) \/ TaskRaise(n)
  \/ AssistBuild

\* C10: no step of generate_real_time_assist changes the Conversation Store:
\* the tracked ids and the messages of every conversation are the same after
\* the step as before it.
\* (stated by its contrapositive: a step that changes the store is no step of
\* the call)
C10_StoreUnchanged ==
  [][active_conversations' # active_conversations => ~AssistStep]_vars

\* C10 happens: a call has run its three operations on a stored conversation
C10_Witness ==
  /\ a_pc = "returned"
  /\ a_response.summary # None
  /\ a_response.smart_replies # None
  /\ a_response.knowledge_snippets # None
  /\ active_conversations = [c \in {a_call.conversation_id} |-> Messages]
\* the scores the claim collects from results: one per signal in counted
ClaimedScores(results, counted) ==
  (IF "smart_replies" \in counted
     THEN <<RatDiv(RatSum([i \in DOMAIN results["smart_replies"].items |->
                             results["smart_replies"].items[i].confidence]),
                   Len(results["smart_replies"].items))>>
     ELSE <<>>)
  \o (IF "knowledge" \in counted THEN <<Rat(85, 100)>> ELSE <<>>)
  \o (IF "summary" \in counted THEN <<Rat(90, 100)>> ELSE <<>>)

\* the average of the scores, 0.5 when there is none
ClaimedConfidence(scores) ==
  IF scores = <<>> THEN Rat(1, 2) ELSE RatDiv(RatSum(scores), Len(scores))

\* a confidence call has returned
ConfidenceReturned ==
  fn_call.name = "_calculate_overall_confidence" /\ fn_result # NoResult

\* C11 as stated: the confidence is the average of one score per signal whose
\* operation succeeded (its entry in results is not None), 0.5 when none
\* succeeded.  Stated for the results in which the mean of the reply
\* confidences is defined.
C11_AverageOfSucceeded ==
  LET results == fn_call.results
      succeeded == {n \in DOMAIN results : results[n] # None}
  IN (/\ ConfidenceReturned
      /\ "smart_replies" \in succeeded => results["smart_replies"].items # <<>>)
       => fn_result.value = ClaimedConfidence(ClaimedScores(results, succeeded))

\* is the value of results[n] empty: an empty list or an empty str
EmptyOutcome(v) == IF v.type = "list" THEN v.items = <<>> ELSE v = PyStr(<<>>)

\* C11 amended: the confidence is the average of one score per signal whose
\* operation succeeded with a result that is not empty (the mean of the reply
\* confidences, 0.85 for knowledge, 0.90 for the summary), 0.5 when there is
\* no such signal, and lies in [0, 1].
C11_AverageOfProduced ==
  LET results == fn_call.results
      produced == {n \in DOMAIN results :
                     results[n] # None /\ ~EmptyOutcome(results[n])}
  IN ConfidenceReturned =>
       /\ fn_result.value = ClaimedConfidence(ClaimedScores(results, produced))
       /\ 0 <= fn_result.value.num
       /\ fn_result.value.num <= fn_result.value.den

\* C11 happens: the three operations succeeded, the replies with two entries
C11_Witness ==
  /\ ConfidenceReturned
  /\ DOMAIN fn_call.results = Range(TaskNames)
  /\ fn_call.results["summary"] = GeneratedText
  /\ fn_call.results["knowledge"] # None
  /\ fn_call.results["smart_replies"] # None
  /\ Len(fn_call.results["smart_replies"].items) = 2
  /\ fn_result.value = Rat(515, 600)

\* the rules whose keyword the lowercase text holds
MatchingRules(text) ==
  {k \in DOMAIN ActionRules :
     \E w \in Range(ActionRules[k].words) : Contains(lower(Format(text)), w)}

\* the recommendation the claim gives for the last message
ClaimedAction(messages) ==
  IF messages = <<>> THEN ActGreet
  ELSE LET hits == MatchingRules(messages[Len(messages)].text) IN
    IF hits = {} THEN ActClarify ELSE ActionRules[SetMin(hits)].action

ActionReturned ==
  fn_call.name = "_determine_next_best_action" /\ fn_result # NoResult

\* C12: for a history that is empty or whose last message has a text, the
\* next-best-action is the greeting for the empty history and else the
\* recommendation of the first rule, in the order of the rules, whose keyword
\* the lowercase text of the last message holds, 'clarify' when no rule
\* matches; the earlier messages and the role of the last one do not count.
\* A text with a scheduling keyword gives the appointment slots even when it
\* holds keywords of later rules.
C12_FirstMatchingRule ==
  LET messages == fn_call.messages IN
  (ActionReturned /\ (messages = <<>> \/ IsStr(messages[Len(messages)].text))) =>
    /\ ~fn_result.raised
    /\ fn_result.value = ClaimedAction(messages)
    /\ (messages # <<>> /\ 1 \in MatchingRules(messages[Len(messages)].text))
         => fn_result.value = ActAppointment

\* C12 happens: after a patient message about a refill, the agent message
\* "Book a lab test" holds keywords of the first and of the fourth rule, and
\* the appointment slots are recommended
C12_Witness ==
  /\ ActionReturned
  /\ Len(fn_call.messages) = 2
  /\ fn_call.messages[1].role = "patient"
  /\ fn_call.messages[2].role = "agent"
  /\ MatchingRules(fn_call.messages[2].text) = {1, 4}
  /\ fn_result.value = ActAppointment

\* C13: a history read for an id the store does not track (never registered,
\* or closed) returns the empty sequence, raises nothing and leaves the store
\* as it was: the id is not registered by the read.
C13_UnknownIdReadsEmpty ==
  [][\A c \in StoreIds, limit \in HistoryLimits :
       (CallHistory(c, limit) /\ c \notin DOMAIN active_conversations) =>
         /\ fn_result' = Returned(<<>>)
         /\ active_conversations' = active_conversations]_vars

\* C13 happens: c1 is read while only c2 is tracked, with a message
C13_Witness ==
  /\ fn_call.name = "get_conversation_history"
  /\ fn_call.conversation_id = "c1"
  /\ fn_result = Returned(<<>>)
  /\ DOMAIN active_conversations = {"c2"}
  /\ Len(active_conversations["c2"]) = 1

\* C14: register on a tracked id leaves the store as it is, whatever the
\* messages of the conversation; on an id that is not tracked it adds the id
\* with an empty history and leaves every other conversation as it is.
C14_RegisterIdempotent ==
  [][\A c \in StoreIds :
       CallRegister(c) =>
         IF c \in DOMAIN active_conversations
           THEN active_conversations' = active_conversations
           ELSE /\ DOMAIN active_conversations' = DOMAIN active_conversations \cup {c}
                /\ active_conversations'[c] = <<>>
                /\ \A d \in DOMAIN active_conversations :
                     active_conversations'[d] = active_conversations[d]]_vars

\* C14 happens: register was called on a conversation that holds two messages
C14_Witness ==
  /\ fn_call = [name |-> "register_conversation", conversation_id |-> "c1"]
  /\ "c1" \in DOMAIN active_conversations
  /\ Len(active_conversations["c1"]) = 2

\* C15: close removes the conversation and leaves the others as they are,
\* and raises nothing on an id that is not tracked; an id that is not tracked
\* stays so until an add_message or a register_conversation for it; and a
\* history read for it returns the empty sequence.
C15_ClosedReadsEmpty ==
  [][/\ \A c \in StoreIds :
          CallClose(c) =>
            /\ fn_result' = Returned(None)
            /\ DOMAIN active_conversations' = DOMAIN active_conversations \ {c}
            /\ \A d \in DOMAIN active_conversations' :
                 active_conversations'[d] = active_conversations[d]
     /\ \A c \in StoreIds :
          (c \notin DOMAIN active_conversations /\ c \in DOMAIN active_conversations') =>
            /\ fn_call'.name \in {"add_message", "register_conversation"}
            /\ fn_call'.conversation_id = c
     /\ \A c \in StoreIds, limit \in HistoryLimits :
          (CallHistory(c, limit) /\ c \notin DOMAIN active_conversations) =>
            fn_result'.value = <<>>]_vars

\* C15 happens: two messages were added, every conversation was closed, and
\* the history read returns the empty sequence
C15_Witness ==
  /\ fn_call.name = "get_conversation_history"
  /\ fn_result = Returned(<<>>)
  /\ n_added = 2
  /\ DOMAIN active_conversations = {}

\* the last k elements of s
Newest(s, k) == SubSeq(s, Len(s) - k + 1, Len(s))

\* C16: a history read with a limit returns the most recent min(limit, length)
\* messages in their order, for every limit from 0 on; a read with no limit
\* returns the whole sequence.
C16_LimitReturnsNewest ==
  (fn_call.name = "get_conversation_history") =>
    LET messages == Stored(fn_call.conversation_id)
        limit == fn_call.limit
    IN fn_result =
         Returned(IF limit = None THEN messages
                  ELSE IF limit.value < Len(messages)
                    THEN Newest(messages, limit.value)
                    ELSE messages)

\* the sum of the lengths of the histories
RECURSIVE TotalMessages(_)
TotalMessages(ids) ==
  IF ids = {} THEN 0
  ELSE LET c == CHOOSE x \in ids : TRUE
       IN Len(active_conversations[c]) + TotalMessages(ids \ {c})

\* the store of the scenario: two conversations of 3 and 5 messages
ScenarioStore ==
  [c \in StoreIds |->
     [i \in 1 .. (IF c = "c1" THEN 3 ELSE 5) |->
        [role |-> "patient", text |-> Hi, timestamp |-> Now]]]

\* C17: metrics reports the number of tracked conversations, the sum of their
\* message counts and the quotient of the two, 0 when no conversation is
\* tracked; conversations of 3 and 5 messages give 2, 8 and 4.0.
C17_MetricsOfStore ==
  /\ (fn_call.name = "get_metrics") =>
       LET count == Cardinality(DOMAIN active_conversations)
           total == TotalMessages(DOMAIN active_conversations)
       IN /\ ~fn_result.raised
          /\ fn_result.value.active_conversations = count
          /\ fn_result.value.total_messages = total
          /\ fn_result.value.avg_messages_per_conversation =
               (IF count = 0 THEN Rat(0, 1) ELSE Rat(total, count))
  /\ get_metrics(ScenarioStore) =
       [active_conversations |-> 2, total_messages |-> 8,
        avg_messages_per_conversation |-> Rat(4, 1)]

\* C17 happens: metrics of two conversations of 1 and 2 messages: 2, 3, 1.5
C17_Witness ==
  /\ fn_call.name = "get_metrics"
  /\ DOMAIN active_conversations = StoreIds
  /\ Len(active_conversations["c1"]) = 1
  /\ Len(active_conversations["c2"]) = 2
  /\ fn_result.value.avg_messages_per_conversation = Rat(3, 2)

(***************************************************************************)
(* C20.  redact on a text with instances of the categories                 *)
(***************************************************************************)
\* the spans (offset before, offset after) of the leftmost non-overlapping
\* matches of a pattern in s from offset pos on
RECURSIVE FindAllFrom(_, _, _)
FindAllFrom(alts, s, pos) ==
  LET starts == {i \in pos .. Len(s) - 1 : MatchAlts(alts, 1, s, i) > i} IN
  IF starts = {} THEN <<>>
  ELSE LET i == SetMin(starts)
           e == MatchAlts(alts, 1, s, i)
       IN <<<<i, e>>>> \o FindAllFrom(alts, s, e)

Instances(name, chars) == FindAllFrom(PatternOf(name), chars, 0)

\* s from offset pos on with each span replaced by repl
RECURSIVE ReplaceSpans(_, _, _, _)
ReplaceSpans(s, spans, repl, pos) ==
  IF spans = <<>> THEN SubSeq(s, pos + 1, Len(s))
  ELSE SubSeq(s, pos + 1, Head(spans)[1]) \o repl
         \o ReplaceSpans(s, Tail(spans), repl, Head(spans)[2])

\* the text the categories before the k-th leave of chars
RECURSIVE LeftBy(_, _)
LeftBy(k, chars) ==
  IF k = 1 THEN chars
  ELSE LET before == LeftBy(k - 1, chars)
           name == PatternNames[k - 1]
       IN ReplaceSpans(before, Instances(name, before), Replacement(name), 0)

RedactReturned ==
  /\ fn_call.name = "redact"
  /\ fn_result # NoResult
  /\ fn_call.text # None

\* C20 as stated: for every text containing an instance of a category's
\* pattern, redact returns a text in which the matched substring no longer
\* appears and the placeholder of the category stands, and the count returned
\* for the category is the number of non-overlapping matches in the text.
C20_RedactsEveryInstance ==
  RedactReturned =>
    \A k \in DOMAIN PATTERNS :
      LET name == PatternNames[k]
          chars == fn_call.text.chars
          found == Instances(name, chars)
          out == fn_result.value
      IN found # <<>> =>
           /\ \A m \in Range(found) :
                ~Contains(out.text.chars, SubSeq(chars, m[1] + 1, m[2]))
           /\ Contains(out.text.chars, Replacement(name))
           /\ name \in DOMAIN out.counts
           /\ out.counts[name] = Len(found)

\* C20 as amended: the categories are applied in the order of PATTERNS, each
\* to the text the categories before it leave; redact returns the text in
\* which each non-overlapping match of each category in the text left to it
\* is replaced by the placeholder of the category, and the count returned for
\* a category is the number of those matches, no count being returned for a
\* category without one.
C20_RedactsInOrder ==
  RedactReturned =>
    LET chars == fn_call.text.chars
        out == fn_result.value
    IN /\ out.text = PyStr(LeftBy(Len(PATTERNS) + 1, chars))
       /\ \A k \in DOMAIN PATTERNS :
            LET name == PatternNames[k]
                n == Len(Instances(name, LeftBy(k, chars)))
            IN IF n > 0
                 THEN name \in DOMAIN out.counts /\ out.counts[name] = n
                 ELSE name \notin DOMAIN out.counts

\* redact has returned "My SSN is [REDACTED_SSN]" and the count ssn = 1 for
\* "My SSN is 123-45-6789"
C20_Witness ==
  /\ RedactReturned
  /\ fn_call.text.chars
       = <<"M", "y", " ", "S", "S", "N", " ", "i", "s", " ">> \o Ssn.chars
  /\ fn_result.value.text.chars
       = <<"M", "y", " ", "S", "S", "N", " ", "i", "s", " ">>
           \o Replacement(<<"s", "s", "n">>)
  /\ ~Contains(fn_result.value.text.chars, Ssn.chars)
  /\ fn_result.value.counts = [n \in {<<"s", "s", "n">>} |-> 1]

(***************************************************************************)
(* C18.  A request whose signature does not validate                       *)
(***************************************************************************)
\* the header is missing or empty, or is not the digest of the body under
\* the configured secret
SignatureFails(request) ==
  /\ Truthy(webhook_secret)
  /\ \/ ~Truthy(request.signature)
     \/ request.signature # HmacSha256(webhook_secret, request.data)

\* C18: a webhook request whose signature is missing, or is not the
\* HMAC-SHA256 of the body under the configured secret, is answered 401 and
\* registers, appends and closes nothing: the store is as it was.
C18_RejectedBeforeCore ==
  [][(fn_call'.name = "genesys_webhook" /\ fn_result = NoResult
        /\ SignatureFails(fn_call'.request)) =>
       /\ active_conversations' = active_conversations
       /\ n_added' = n_added
       /\ fn_result'.value.status_code = 401]_vars

\* a conversation-start event for c2 with a signature that does not validate
\* has been answered 401 while c1 is tracked and c2 is not
C18_Witness ==
  /\ fn_call.name = "genesys_webhook"
  /\ SignatureFails(fn_call.request)
  /\ Truthy(fn_call.request.signature)
  /\ fn_call.request.data \in StartPayloads
  /\ Get(fn_call.request.data, "id", Null) = "c2"
  /\ fn_result.value.status_code = 401
  /\ DOMAIN active_conversations = {"c1"}
  /\ Len(active_conversations["c1"]) > 0

(***************************************************************************)
(* C19.  The store operation of each webhook event                         *)
(***************************************************************************)
\* a request that was handled: its signature validated and its body is a
\* non-empty dict
EventHandled ==
  /\ fn_call'.name = "genesys_webhook"
  /\ fn_result = NoResult
  /\ validate_signature(webhook_secret, fn_call'.request)
  /\ Truthy(fn_call'.request.data)

\* the store differs by one message of the role, added to the history of c
AppendedOne(c, role) ==
  LET old == IF c \in DOMAIN active_conversations
               THEN active_conversations[c] ELSE <<>>
  IN /\ DOMAIN active_conversations' = DOMAIN active_conversations \cup {c}
     /\ \A d \in DOMAIN active_conversations \ {c} :
          active_conversations'[d] = active_conversations[d]
     /\ Len(active_conversations'[c]) = Len(old) + 1
     /\ SubSeq(active_conversations'[c], 1, Len(old)) = old
     /\ active_conversations'[c][Len(old) + 1].role = role

\* the store differs by c, tracked with the history it had or an empty one
RegisteredOnly(c) ==
  /\ DOMAIN active_conversations' = DOMAIN active_conversations \cup {c}
  /\ \A d \in DOMAIN active_conversations :
       active_conversations'[d] = active_conversations[d]
  /\ c \notin DOMAIN active_conversations => active_conversations'[c] = <<>>

\* the store differs by c, no longer tracked
ClosedOnly(c) ==
  /\ DOMAIN active_conversations' = DOMAIN active_conversations \ {c}
  /\ \A d \in DOMAIN active_conversations' :
       active_conversations'[d] = active_conversations[d]

SenderIsAgent(payload) ==
  LET message == Get(payload, "message", EmptyDict)
  IN message.type = "dict" /\ Get(message, "type", "unknown") = "agent"

\* the message of the event is a dict with an entry
HasMessageObject(payload) ==
  LET message == Get(payload, "message", EmptyDict)
  IN message.type = "dict" /\ Truthy(message)

\* the participant of the event is a dict, or is not given
ParticipantReadable(payload) ==
  Get(payload, "participant", EmptyDict).type = "dict"

\* C19 as stated: conversation-start registers the id, message-received
\* appends exactly one message, of role agent when the sender type is agent
\* and patient otherwise, agent-joined appends exactly one message of role
\* system, conversation-end closes the id; an event of another type, and a
\* start, end or message event without a conversation id, leaves the store
\* as it was.
C19_OneOperationPerEvent ==
  [][EventHandled =>
       LET payload == fn_call'.request.data
           event_type == EventTypeOf(payload)
           id == Get(payload, "id", Null)
           conversation_id == Get(payload, "conversationId", Null)
       IN CASE event_type = EVENT_CONVERSATION_START ->
                 IF Given(id) THEN RegisteredOnly(id)
                 ELSE active_conversations' = active_conversations
            [] event_type = EVENT_MESSAGE_RECEIVED ->
                 IF Given(conversation_id)
                   THEN AppendedOne(conversation_id,
                                    IF SenderIsAgent(payload) THEN "agent" ELSE "patient")
                   ELSE active_conversations' = active_conversations
            [] event_type = EVENT_AGENT_JOINED ->
                 AppendedOne(conversation_id, "system")
            [] event_type = EVENT_CONVERSATION_END ->
                 IF Given(id) THEN ClosedOnly(id)
                 ELSE active_conversations' = active_conversations
            [] OTHER -> active_conversations' = active_conversations]_vars

\* C19 as amended: a message-received event appends its one message when it
\* carries a conversation id and a non-empty message object, and leaves the
\* store as it was without either; an agent-joined event appends its one
\* system message, under the conversation id it carries or under None,
\* unless its participant is given and is not an object, when the store is
\* as it was; the other events as stated.
C19_OneOperationPerValidEvent ==
  [][EventHandled =>
       LET payload == fn_call'.request.data
           event_type == EventTypeOf(payload)
           id == Get(payload, "id", Null)
           conversation_id == Get(payload, "conversationId", Null)
       IN CASE event_type = EVENT_CONVERSATION_START ->
                 IF Given(id) THEN RegisteredOnly(id)
                 ELSE active_conversations' = active_conversations
            [] event_type = EVENT_MESSAGE_RECEIVED ->
                 IF Given(conversation_id) /\ HasMessageObject(payload)
                   THEN AppendedOne(conversation_id,
                                    IF SenderIsAgent(payload) THEN "agent" ELSE "patient")
                   ELSE active_conversations' = active_conversations
            [] event_type = EVENT_AGENT_JOINED ->
                 IF ParticipantReadable(payload)
                   THEN AppendedOne(conversation_id, "system")
                   ELSE active_conversations' = active_conversations
            [] event_type = EVENT_CONVERSATION_END ->
                 IF Given(id) THEN ClosedOnly(id)
                 ELSE active_conversations' = active_conversations
            [] OTHER -> active_conversations' = active_conversations]_vars

\* a message-received event of a customer for c1 has been handled: the last
\* of the messages of c1, which had one before, has the role patient
C19_Witness ==
  /\ fn_call.name = "genesys_webhook"
  /\ fn_call.request.data \in MessagePayloads
  /\ Get(fn_call.request.data, "conversationId", Null) = "c1"
  /\ Get(fn_call.request.data, "message", EmptyDict) = CustomerMessage
  /\ fn_result.value.status_code = 200
  /\ fn_result.value.json.message_role = "patient"
  /\ "c1" \in DOMAIN active_conversations
  /\ Len(active_conversations["c1"]) >= 2
  /\ active_conversations["c1"][Len(active_conversations["c1"])].role = "patient"

(***************************************************************************)
(* C21.  is_text_safe and the empty count map                              *)
(***************************************************************************)
\* C21: is_text_safe(text) is true exactly when redact(text) returns an
\* empty count map, and redact returns its input as it is whenever the count
\* map it returns is empty; the count map of an empty or null input is empty.
C21_SafeIffNoCounts ==
  /\ (fn_call.name = "is_text_safe" /\ fn_result # NoResult) =>
       fn_result.value = PyBool(DOMAIN redact(fn_call.text, None).counts = {})
  /\ (fn_call.name = "redact" /\ fn_result # NoResult) =>
       /\ fn_result.value.counts = NoCounts => fn_result.value.text = fn_call.text
       /\ fn_call.text \in {None, PyStr(<<>>)} => fn_result.value.counts = NoCounts

\* is_text_safe has returned false for a text with an SSN, whose count map
\* is not empty
C21_Witness ==
  /\ fn_call.name = "is_text_safe"
  /\ fn_call.text # None
  /\ Contains(fn_call.text.chars, Ssn.chars)
  /\ DOMAIN redact(fn_call.text, None).counts # {}
  /\ fn_result = Returned(PyBool(FALSE))

(***************************************************************************)
(* C22.  redact_dict on nested values                                      *)
(***************************************************************************)
\* a value with every str in it redacted, at every depth
RECURSIVE RedactedDeep(_)
RedactedDeep(value) ==
  CASE value.type = "str" -> redact(value, None).text
    [] value.type = "dict" ->
         PyDict([key \in DOMAIN value.items |-> RedactedDeep(value.items[key])])
    [] value.type = "list" ->
         PyList([i \in DOMAIN value.items |-> RedactedDeep(value.items[i])])
    [] OTHER -> value

\* C22: redact_dict returns the dict with every str beneath a covered
\* top-level key redacted, in dicts and lists at every depth, dicts and lists
\* inside a list included; keys_to_redact, when given, picks the covered
\* top-level keys only, and the values of the other top-level keys stay.
C22_EveryLeafRedacted ==
  (fn_call.name = "redact_dict" /\ fn_result # NoResult /\ Truthy(fn_call.data)) =>
    LET data == fn_call.data
        keys == fn_call.keys_to_redact
    IN fn_result.value =
         PyDict([key \in DOMAIN data.items |->
                   IF keys # None /\ key \notin Range(keys.items)
                     THEN data.items[key]
                     ELSE RedactedDeep(data.items[key])])

(***************************************************************************)
(* C23.  The local phone number and the patient id of the tests            *)
(***************************************************************************)
\* "[REDACTED", what every placeholder starts with
PlaceholderStart == <<"[", "R", "E", "D", "A", "C", "T", "E", "D">>

\* C23: the value "Call me at 555-1234" comes back from redact_dict with a
\* placeholder in it, and a text with "Patient ID: 123456", an SSN and
\* "555-1234" gets counts for at least two categories.
C23_LocalFormatsRedacted ==
  /\ (fn_call.name = "redact_dict" /\ fn_result # NoResult
        /\ fn_call.keys_to_redact = None
        /\ fn_call.data = PyDict(("message" :> LocalPhoneText)
                                   @@ ("patient_info" :> SsnInfoText))) =>
       Contains(fn_result.value.items["message"].chars, PlaceholderStart)
  /\ (fn_call.name = "redact" /\ fn_result # NoResult /\ fn_call.text # None) =>
       ((/\ Contains(fn_call.text.chars, <<"P", "a", "t", "i", "e", "n", "t", " ",
                                           "I", "D", ":", " ", "1", "2", "3", "4",
                                           "5", "6">>)
         /\ Contains(fn_call.text.chars, Ssn.chars)
         /\ Contains(fn_call.text.chars, <<"5", "5", "5", "-", "1", "2", "3", "4">>))
          => Cardinality(DOMAIN fn_result.value.counts) >= 2)

(***************************************************************************)
(* C26.  Placeholders and the later categories                             *)
(***************************************************************************)
\* the offsets at which x occurs in s
Occurrences(s, x) ==
  {i \in 0 .. Len(s) - Len(x) : SubSeq(s, i + 1, i + Len(x)) = x}

\* C26: the categories run in the order of PATTERNS over the progressively
\* redacted text; in the pass of a category no match of its pattern overlaps
\* a placeholder that an earlier category inserted, and the final text holds
\* as many placeholders of a category as the category counted.
C26_PlaceholdersIntact ==
  RedactReturned =>
    LET chars == fn_call.text.chars
        out == fn_result.value
    IN /\ out.text = PyStr(LeftBy(Len(PATTERNS) + 1, chars))
       /\ \A k \in DOMAIN PATTERNS : \A j \in 1 .. k - 1 :
            LET before == LeftBy(k, chars)
                placeholder == Replacement(PatternNames[j])
            IN \A i \in Occurrences(before, placeholder) :
                 \A m \in Range(Instances(PatternNames[k], before)) :
                   ~(m[1] < i + Len(placeholder) /\ i < m[2])
       /\ \A j \in DOMAIN PATTERNS :
            Cardinality(Occurrences(out.text.chars, Replacement(PatternNames[j])))
              = IF PatternNames[j] \in DOMAIN out.counts
                  THEN out.counts[PatternNames[j]] ELSE 0

\* redact has returned a text with the placeholders of three categories, one
\* of each: that of ssn went through the passes of mrn and date
C26_Witness ==
  /\ RedactReturned
  /\ DOMAIN fn_result.value.counts
       = {<<"s", "s", "n">>, <<"m", "r", "n">>, <<"d", "a", "t", "e">>}
  /\ \A name \in DOMAIN fn_result.value.counts :
       Cardinality(Occurrences(fn_result.value.text.chars, Replacement(name))) = 1

(***************************************************************************)
(* C24.  The context of suggestReplies                                     *)
(***************************************************************************)
\* messages without its i-th
Without(messages, i) ==
  SubSeq(messages, 1, i - 1) \o SubSeq(messages, i + 1, Len(messages))

\* C24: the context handed to the smart replies is the history without the
\* message whose text is handed as last_message, the most recent patient
\* message, also when a message of the agent or the system follows it; and
\* the prompt is made of the 5 most recent entries of the context at most.
C24_ContextExcludesLastPatient ==
  [][/\ (~Launched("smart_replies") /\ Launched("smart_replies")') =>
          \A i \in DOMAIN Messages :
            MostRecentPatient(Messages, i) =>
              a_task'["smart_replies"].args.context_messages = Without(Messages, i)
     /\ (a_task["smart_replies"].state = "pending"
           /\ a_task'["smart_replies"].state = "running") =>
          a_task'["smart_replies"].sent =
            SmartReplyPrompt(
              LastN(a_task'["smart_replies"].read.context_messages, ContextWindow),
              a_task'["smart_replies"].read.last_message)]_vars

(***************************************************************************)
(* The call under a fair event loop.  The loop runs every step of          *)
(* generate_real_time_assist that is ready: the gates, the start of the    *)
(* next task and the building of the response.  The end of a running task  *)
(* is the answer of the remote model, which the loop does not control:     *)
(* lines 160-166 await the task with no timeout, and the wrappers of lines *)
(* 187-207 call the model with none, so that neither TaskReturn nor        *)
(* TaskRaise is ever forced.                                               *)
(***************************************************************************)
\* a step of the call the event loop takes by itself
LoopStep ==
  \/ SummaryGate
  \/ SmartRepliesGate
  \/ KnowledgeGate
  \/ \E n \in Range(TaskNames) : TaskStart(n)
  \/ AssistBuild

\* the requests served while the call runs: the steps of Next on one
\* conversation, with the messages the threads add
FairConv == CHOOSE c \in ConvIds : TRUE

NextFair ==
  \/ register_conversation(FairConv)
  \/ \E m \in ThreadMessageInputs : add_message(FairConv, m[1], m[2], None)
  \/ close_conversation(FairConv)
  \/ \E s \in BOOLEAN, r \in BOOLEAN, k \in BOOLEAN : AssistFetch(FairConv, s, r, k)
  \/ SummaryGate
  \/ SmartRepliesGate
  \/ KnowledgeGate
  \/ \E n \in Range(TaskNames) : TaskStart(n)
  \/ \E n \in Range(TaskNames) : TaskReturn(n)
  \/ \E n \in Range(TaskNames) : TaskRaise(n)
  \/ AssistBuild

SpecFair == Init /\ [][NextFair]_vars /\ WF_vars(LoopStep)

\* C25: a generation operation that never completes is given up after its
\* timeout, so that every call of generate_real_time_assist that awaits its
\* tasks eventually ends, with a response or an exception.
C25_CallEventuallyEnds == (a_pc = "await") ~> CallOver

\* s is the beginning of t
StartsWith(t, s) == Len(s) <= Len(t) /\ SubSeq(t, 1, Len(s)) = s

C28_AppendNeverFails ==
  [][\A t \in Threads :
       AddMessageAppend(t) =>
         /\ threads[t].conversation_id \in DOMAIN active_conversations
         /\ appended' = Append(appended, threads[t].message)]_vars

\* the three values are those of get_metrics on one store
MetricsConsistent(m) ==
  m.avg_messages_per_conversation =
    IF m.active_conversations # 0
      THEN Rat(m.total_messages, m.active_conversations)
      ELSE Rat(0, 1)

\* C29: get_metrics does not fail while other threads register, add and
\* close, and what it returns is consistent: the average is the total over
\* the number of conversations, or 0 when there is none.
C29_MetricsConsistent ==
  [][\A t \in Threads :
       (MetricsDiv(t) \/ (MetricsIf(t) /\ threads'[t].pc = "idle")) =>
         /\ ~MetricsOutcome(t).raised
         /\ MetricsConsistent(MetricsOutcome(t).value)]_vars

\* the call is between its fetch and its return
CallRunning == a_pc \in {"summary", "smart_replies", "knowledge", "await"}

\* C30: one response is made from one history, the history as fetched at
\* line 116: while the call runs the content of `messages` stays what it
\* was, and when the response is built the tasks that were launched, what
\* they were given and what the summary read are those of the history the
\* next best action is computed from.
C30_OneSnapshot ==
  [][/\ (CallRunning /\ CallRunning') => Messages' = Messages
     /\ (a_pc = "await" /\ a_pc' = "returned") =>
          /\ Launched("summary") <=>
               (a_call.include_summary /\ Len(Messages) >= SummaryMinMessages)
          /\ Launched("summary") =>
               a_task["summary"].read.messages = Messages
          /\ Launched("smart_replies") =>
               /\ a_task["smart_replies"].args.context_messages =
                    SubSeq(Messages, 1, Len(Messages) - 1)
               /\ a_task["smart_replies"].args.last_message =
                    _get_last_patient_message(Messages)
          /\ Launched("knowledge") =>
               a_task["knowledge"].args.query =
                 _get_last_patient_message(Messages)]_vars
====
